---- MODULE Spec2Model ----
(***************************************************************************)
(* A model of the concurrent B+ tree of src/unnamed/part_001 (the          *)
(* single-file implementation: BaseNode, LeafNode, InternalNode and        *)
(* BPlusTree with its node latches, the root mutex and the tree mutex).    *)
(*                                                                         *)
(* The heap is a sequence of node records; a pointer is an index into it   *)
(* and Null is 0.  `new` appends a record, `delete` marks a record freed   *)
(* and keeps its bytes, so that a dangling pointer still designates the    *)
(* memory it designated.  Every public operation is a sequence of steps of *)
(* one thread; a step is what the code does between two latch operations   *)
(* that may block.  A lock_guard block on root_mutex is one step: nothing  *)
(* blocks inside it.                                                       *)
(*                                                                         *)
(* Undefined behaviour is a choice.  Locking or unlocking the latch of a   *)
(* freed node either goes on with the stale bytes or never returns         *)
(* (pc = "fault": an abort or a block on a destroyed mutex); a value read  *)
(* out of a freed leaf is any value; the out-of-bounds key read of         *)
(* handle_split yields the stale key or aborts.                            *)
(***************************************************************************)
EXTENDS Integers, Sequences, FiniteSets, TLC

\* ------------------------------------------------------------- bounds
\* Keys 1, 3, ..., 2*MaxLoad - 1 are loaded in ascending order by thread 1
\* before a two-thread run.
MaxLoad == 5
\* Keys 1, 3, ..., 2*MaxSeqLoad - 1 are loaded before a single-threaded run:
\* enough for a tree of three levels at either order (order 3 from 10 keys,
\* order 4 from 17), with internal splits and merges.
MaxSeqLoad == 17
\* Keys the operations after the load draw from: 1..MaxKey.
MaxKey == 7
\* Values the operations after the load insert: 1..MaxVal (0 means absent).
MaxVal == 2
\* Operations thread 1 issues after the load in a single-threaded run.
MaxOps == 2
\* Operations each thread issues after the load in a two-thread run.
MaxConc == 1

Null == 0
Orders == {3, 4}
Keys == 1..MaxKey
Vals == 1..MaxVal
LoadKey(i) == 2 * i - 1
LoadVal == 1
Threads == {1, 2}
AllKeys == 1..(IF MaxKey > LoadKey(MaxSeqLoad) THEN MaxKey ELSE LoadKey(MaxSeqLoad))

Min(a, b) == IF a < b THEN a ELSE b

\* ------------------------------------------------------ sequence helpers
\* std::vector::insert(begin() + i, x), i counted from 0.
InsertAt(s, i, x) == SubSeq(s, 1, i) \o <<x>> \o SubSeq(s, i + 1, Len(s))
\* std::vector::erase(begin() + i), i counted from 0.
EraseAt(s, i) == SubSeq(s, 1, i) \o SubSeq(s, i + 2, Len(s))
\* s[i], i counted from 0.
At(s, i) == s[i + 1]
Front(s) == SubSeq(s, 1, Len(s) - 1)
Range(s) == {s[i] : i \in 1..Len(s)}

\* ---------------------------------------------------------------- nodes
\* st: "live" or "freed".  lw, lr: the node's std::shared_mutex (the thread
\* holding it exclusively or 0, and the threads holding it shared).
LeafNode == [st |-> "live", is_leaf |-> TRUE, size |-> 0, keys |-> <<>>,
             values |-> <<>>, children |-> <<>>, parent |-> Null,
             prev |-> Null, next |-> Null, lw |-> 0, lr |-> {}]
InternalNode == [st |-> "live", is_leaf |-> FALSE, size |-> 0, keys |-> <<>>,
                 values |-> <<>>, children |-> <<>>, parent |-> Null,
                 prev |-> Null, next |-> Null, lw |-> 0, lr |-> {}]

\* std::lower_bound over keys[0 .. size): the binary search of the library.
RECURSIVE lower_bound(_, _, _, _)
lower_bound(keys, first, len, key) ==
    IF len <= 0 THEN first
    ELSE LET half == len \div 2
             mid == first + half
         IN IF At(keys, mid) < key
            THEN lower_bound(keys, mid + 1, len - half - 1, key)
            ELSE lower_bound(keys, first, half, key)

find_index(n, key) == lower_bound(n.keys, 0, Min(n.size, Len(n.keys)), key)

is_overloaded(n, order) == n.size > order
is_underloaded(n, order) == n.size < (order + 1) \div 2
\* is_safe with the lower bound included: size >= (order + 1) / 2.
is_safe_at_minimum(n, order) == (n.size < order) /\ (n.size >= ((order + 1) \div 2))
is_safe(n, order) == (n.size < order) /\ (n.size > ((order + 1) \div 2))

\* Whether the leaf holds key at the position find_index gives.
LeafHas(n, key) ==
    LET index == find_index(n, key)
    IN index < n.size /\ index < Len(n.keys) /\ At(n.keys, index) = key

\* LeafNode::insert_in_node.
LeafInsertInNode(n, key, value) ==
    LET index == find_index(n, key)
    IN IF LeafHas(n, key)
       THEN [n EXCEPT !.values = [@ EXCEPT ![index + 1] = value]]
       ELSE [n EXCEPT !.keys = InsertAt(@, index, key),
                      !.values = InsertAt(@, index, value),
                      !.size = @ + 1]

LeafRemoveFromNode(n, index) ==
    [n EXCEPT !.keys = EraseAt(@, index),
              !.values = EraseAt(@, index),
              !.size = @ - 1]

\* InternalNode::insert_in_node on heap h: node p takes key and right_child.
InternalInsertInNode(h, p, key, right_child) ==
    LET index == find_index(h[p], key)
        h1 == [h EXCEPT ![p] = [@ EXCEPT !.keys = InsertAt(@, index, key),
                                         !.children = InsertAt(@, index + 1, right_child),
                                         !.size = @ + 1]]
    IN [h1 EXCEPT ![right_child] = [@ EXCEPT !.parent = p]]

InternalRemoveFromNode(n, index) ==
    [n EXCEPT !.keys = EraseAt(@, index),
              !.children = EraseAt(@, index + 1),
              !.size = @ - 1]

\* parent pointers of the nodes in cs set to p.
SetParents(h, cs, p) ==
    [i \in DOMAIN h |-> IF i \in Range(cs) THEN [h[i] EXCEPT !.parent = p] ELSE h[i]]

\* LeafSplit with the split point rounded up: split_index = ceil((size + 1) / 2).
LeafSplitCeil(h, n) ==
    LET new == Len(h) + 1
        split_index == (h[n].size + 2) \div 2
        nx == h[n].next
        new_node == [LeafNode EXCEPT
                        !.keys = SubSeq(h[n].keys, split_index + 1, Len(h[n].keys)),
                        !.values = SubSeq(h[n].values, split_index + 1, Len(h[n].values)),
                        !.size = h[n].size - split_index,
                        !.next = nx,
                        !.prev = n]
        h1 == Append(h, new_node)
        h2 == [h1 EXCEPT ![n] = [@ EXCEPT !.keys = SubSeq(@, 1, split_index),
                                          !.values = SubSeq(@, 1, split_index),
                                          !.size = split_index,
                                          !.next = new]]
    IN IF nx # Null THEN [h2 EXCEPT ![nx] = [@ EXCEPT !.prev = new]] ELSE h2

\* LeafNode::split: the new leaf is appended to the heap.
LeafSplit(h, n) ==
    LET new == Len(h) + 1
        split_index == (h[n].size + 1) \div 2
        nx == h[n].next
        new_node == [LeafNode EXCEPT
                        !.keys = SubSeq(h[n].keys, split_index + 1, Len(h[n].keys)),
                        !.values = SubSeq(h[n].values, split_index + 1, Len(h[n].values)),
                        !.size = h[n].size - split_index,
                        !.next = nx,
                        !.prev = n]
        h1 == Append(h, new_node)
        h2 == [h1 EXCEPT ![n] = [@ EXCEPT !.keys = SubSeq(@, 1, split_index),
                                          !.values = SubSeq(@, 1, split_index),
                                          !.size = split_index,
                                          !.next = new]]
    IN IF nx # Null THEN [h2 EXCEPT ![nx] = [@ EXCEPT !.prev = new]] ELSE h2

\* InternalSplit with the right half taking the children from split_index on.
InternalSplitShareChild(h, n) ==
    LET new == Len(h) + 1
        split_index == h[n].size \div 2
        moved == SubSeq(h[n].children, split_index + 1, Len(h[n].children))
        new_node == [InternalNode EXCEPT
                        !.keys = SubSeq(h[n].keys, split_index + 2, Len(h[n].keys)),
                        !.children = moved,
                        !.size = h[n].size - split_index - 1]
        h1 == Append(h, new_node)
        h2 == [h1 EXCEPT ![n] = [@ EXCEPT !.keys = SubSeq(@, 1, split_index),
                                          !.children = SubSeq(@, 1, split_index + 1),
                                          !.size = split_index]]
    IN SetParents(h2, moved, new)

\* InternalNode::split: the new node is appended to the heap.
InternalSplit(h, n) ==
    LET new == Len(h) + 1
        split_index == h[n].size \div 2
        moved == SubSeq(h[n].children, split_index + 2, Len(h[n].children))
        new_node == [InternalNode EXCEPT
                        !.keys = SubSeq(h[n].keys, split_index + 2, Len(h[n].keys)),
                        !.children = moved,
                        !.size = h[n].size - split_index - 1]
        h1 == Append(h, new_node)
        h2 == [h1 EXCEPT ![n] = [@ EXCEPT !.keys = SubSeq(@, 1, split_index),
                                          !.children = SubSeq(@, 1, split_index + 1),
                                          !.size = split_index]]
    IN SetParents(h2, moved, new)

\* What a pure structural routine hands back: the heap, the root pointer and
\* whether the process aborted inside it (a null or out-of-bounds access).
Res(h, root, abort) == [h |-> h, root |-> root, abort |-> abort]

\* The outcomes of reading keys[size] after keys.resize(size) in handle_split:
\* the stale element the shrunk vector still holds, or an abort.
OobOutcomes == {"stale", "abort"}

\* BPlusTree::handle_split.  oob is the outcome of the out-of-bounds key read.
RECURSIVE handle_split(_, _, _, _, _)
handle_split(h, root, node, order, oob) ==
    IF node = Null \/ ~is_overloaded(h[node], order) THEN Res(h, root, FALSE)
    ELSE LET leaf == h[node].is_leaf
             h1 == IF leaf THEN LeafSplit(h, node) ELSE InternalSplit(h, node)
             new_node == Len(h) + 1
             \* leaf: new_leaf->keys[0]; internal: internal->keys[internal->size],
             \* one past the end of the resized vector, where the old middle key lies
             split_key == IF leaf THEN At(h1[new_node].keys, 0)
                                  ELSE At(h[node].keys, h1[node].size)
         IN IF (~leaf /\ oob = "abort") \/ (leaf /\ h1[new_node].keys = <<>>)
            THEN Res(h1, root, TRUE)
            ELSE IF node = root
            THEN LET new_root == Len(h1) + 1
                     rec == [InternalNode EXCEPT !.keys = <<split_key>>,
                                                 !.children = <<node, new_node>>,
                                                 !.size = 1]
                     h2 == Append(h1, rec)
                 IN Res([h2 EXCEPT ![node] = [@ EXCEPT !.parent = new_root],
                                   ![new_node] = [@ EXCEPT !.parent = new_root]],
                        new_root, FALSE)
            ELSE LET parent == h1[node].parent
                 IN IF parent = Null \/ h1[parent].is_leaf
                    THEN Res(h1, root, TRUE)
                    ELSE handle_split(InternalInsertInNode(h1, parent, split_key, new_node),
                                      root, parent, order, oob)

\* `delete n` for an internal node: ~InternalNode deletes every child, which
\* deletes theirs.  The set of records the call frees.
RECURSIVE Subtree(_, _, _)
Subtree(h, ns, fuel) ==
    LET more == ns \cup UNION {Range(h[n].children) : n \in ns}
    IN IF more = ns \/ fuel = 0 THEN ns ELSE Subtree(h, more, fuel - 1)

DeleteNode(h, n) ==
    LET gone == Subtree(h, {n}, Len(h))
    IN [i \in DOMAIN h |-> IF i \in gone THEN [h[i] EXCEPT !.st = "freed"] ELSE h[i]]

\* InternalNode::borrow_from_left on parent p (called for internal children).
borrow_from_left(h, p, child_index) ==
    LET child == At(h[p].children, child_index)
        left_sibling == At(h[p].children, child_index - 1)
        up == At(h[left_sibling].keys, h[left_sibling].size - 1)
        h1 == [h EXCEPT ![child] = [@ EXCEPT !.keys = InsertAt(@, 0, At(h[p].keys, child_index - 1))],
                        ![p] = [@ EXCEPT !.keys = [@ EXCEPT ![child_index] = up]]]
        moved == At(h1[left_sibling].children, h1[left_sibling].size)
        h2 == IF ~h1[child].is_leaf
              THEN [h1 EXCEPT ![child] = [@ EXCEPT !.children = InsertAt(@, 0, moved)],
                              ![moved] = [@ EXCEPT !.parent = child],
                              ![left_sibling] = [@ EXCEPT !.children = Front(@)]]
              ELSE h1
    IN [h2 EXCEPT ![left_sibling] = [@ EXCEPT !.keys = Front(@), !.size = @ - 1],
                  ![child] = [@ EXCEPT !.size = @ + 1]]

\* InternalNode::borrow_from_right on parent p (called for internal children).
borrow_from_right(h, p, child_index) ==
    LET child == At(h[p].children, child_index)
        right_sibling == At(h[p].children, child_index + 1)
        h1 == [h EXCEPT ![child] = [@ EXCEPT !.keys = Append(@, At(h[p].keys, child_index))],
                        ![p] = [@ EXCEPT !.keys = [@ EXCEPT ![child_index + 1] =
                                                       At(h[right_sibling].keys, 0)]],
                        ![right_sibling] = [@ EXCEPT !.keys = Tail(@)]]
        moved == At(h1[right_sibling].children, 0)
        h2 == IF ~h1[child].is_leaf
              THEN [h1 EXCEPT ![child] = [@ EXCEPT !.children = Append(@, moved)],
                              ![moved] = [@ EXCEPT !.parent = child],
                              ![right_sibling] = [@ EXCEPT !.children = Tail(@)]]
              ELSE h1
    IN [h2 EXCEPT ![right_sibling] = [@ EXCEPT !.size = @ - 1],
                  ![child] = [@ EXCEPT !.size = @ + 1]]

\* The leaf branch of handle_underflow's borrow from the left sibling.
LeafBorrowLeft(h, p, child_index) ==
    LET leaf == At(h[p].children, child_index)
        left_leaf == At(h[p].children, child_index - 1)
        k == h[left_leaf].keys[Len(h[left_leaf].keys)]
        v == h[left_leaf].values[Len(h[left_leaf].values)]
    IN [h EXCEPT ![leaf] = [@ EXCEPT !.keys = InsertAt(@, 0, k),
                                     !.values = InsertAt(@, 0, v),
                                     !.size = @ + 1],
                 ![left_leaf] = [@ EXCEPT !.keys = Front(@),
                                          !.values = Front(@),
                                          !.size = @ - 1],
                 ![p] = [@ EXCEPT !.keys = [@ EXCEPT ![child_index] = k]]]

\* The leaf branch of handle_underflow's borrow from the right sibling.
LeafBorrowRight(h, p, child_index) ==
    LET leaf == At(h[p].children, child_index)
        right_leaf == At(h[p].children, child_index + 1)
    IN [h EXCEPT ![leaf] = [@ EXCEPT !.keys = Append(@, At(h[right_leaf].keys, 0)),
                                     !.values = Append(@, At(h[right_leaf].values, 0)),
                                     !.size = @ + 1],
                 ![right_leaf] = [@ EXCEPT !.keys = Tail(@),
                                           !.values = Tail(@),
                                           !.size = @ - 1],
                 ![p] = [@ EXCEPT !.keys = [@ EXCEPT ![child_index + 1] =
                                                At(h[right_leaf].keys, 1)]]]

\* BPlusTree::merge_nodes: children left_index and left_index + 1 of parent p.
merge_nodes(h, p, left_index, is_leaf) ==
    LET left == At(h[p].children, left_index)
        right == At(h[p].children, left_index + 1)
        nx == h[right].next
        hl == [h EXCEPT ![left] = [@ EXCEPT !.keys = @ \o h[right].keys,
                                            !.values = @ \o h[right].values,
                                            !.size = @ + h[right].size,
                                            !.next = nx]]
        hl1 == IF nx # Null THEN [hl EXCEPT ![nx] = [@ EXCEPT !.prev = left]] ELSE hl
        hl2 == [hl1 EXCEPT ![right] = [@ EXCEPT !.next = Null, !.prev = Null, !.st = "freed"]]
        hi == [h EXCEPT ![left] = [@ EXCEPT
                                     !.keys = Append(@, At(h[p].keys, left_index)) \o h[right].keys,
                                     !.children = @ \o h[right].children,
                                     !.size = @ + h[right].size + 1]]
        hi1 == SetParents(hi, h[right].children, left)
        hi2 == [hi1 EXCEPT ![right] = [@ EXCEPT !.children = <<>>, !.st = "freed"]]
        h3 == IF is_leaf THEN hl2 ELSE hi2
    IN [h3 EXCEPT ![p] = InternalRemoveFromNode(@, left_index)]

\* The position of node among p's children, or -1 (the search loop of
\* handle_underflow).
ChildIndex(h, p, node) ==
    LET hits == {i \in 0..(Len(h[p].children) - 1) : At(h[p].children, i) = node}
    IN IF hits = {} THEN -1 ELSE CHOOSE i \in hits : \A j \in hits : i <= j

RECURSIVE handle_underflow(_, _, _, _)
\* handle_underflow that asks the right sibling before the left one.
handle_underflow_right_first(h, root, node, order) ==
    IF node = Null \/ node = root \/ ~is_underloaded(h[node], order) THEN Res(h, root, FALSE)
    ELSE LET parent == h[node].parent
         IN IF parent = Null \/ h[parent].is_leaf THEN Res(h, root, TRUE)
            ELSE
            LET child_index == ChildIndex(h, parent, node)
                nchildren == Len(h[parent].children)
                min == (order + 1) \div 2
                leaf == h[node].is_leaf
                canLeft == child_index > 0
                           /\ h[At(h[parent].children, child_index - 1)].size > min
                canRight == child_index < nchildren - 1
                            /\ h[At(h[parent].children, child_index + 1)].size > min
            IN IF child_index = -1 THEN Res(h, root, FALSE)
               ELSE IF canRight
               THEN Res(IF leaf THEN LeafBorrowRight(h, parent, child_index)
                                ELSE borrow_from_right(h, parent, child_index), root, FALSE)
               ELSE IF canLeft
               THEN Res(IF leaf THEN LeafBorrowLeft(h, parent, child_index)
                                ELSE borrow_from_left(h, parent, child_index), root, FALSE)
               ELSE IF child_index = 0 /\ nchildren < 2 THEN Res(h, root, TRUE)
               ELSE
               LET h1 == IF child_index > 0
                         THEN merge_nodes(h, parent, child_index - 1, leaf)
                         ELSE merge_nodes(h, parent, child_index, leaf)
               IN IF is_underloaded(h1[parent], order) /\ parent # root
                  THEN handle_underflow(h1, root, parent, order)
                  ELSE IF parent = root /\ h1[parent].size = 0
                  THEN \* root = parent->children[0]; root->parent = nullptr; delete parent
                       LET new_root == At(h1[parent].children, 0)
                           h2 == [h1 EXCEPT ![new_root] = [@ EXCEPT !.parent = Null]]
                       IN Res(DeleteNode(h2, parent), new_root, FALSE)
                  ELSE Res(h1, root, FALSE)

\* BPlusTree::handle_underflow.  root is the root pointer as the routine reads it.
handle_underflow(h, root, node, order) ==
    IF node = Null \/ node = root \/ ~is_underloaded(h[node], order) THEN Res(h, root, FALSE)
    ELSE LET parent == h[node].parent
         IN IF parent = Null \/ h[parent].is_leaf THEN Res(h, root, TRUE)
            ELSE
            LET child_index == ChildIndex(h, parent, node)
                nchildren == Len(h[parent].children)
                min == (order + 1) \div 2
                leaf == h[node].is_leaf
                canLeft == child_index > 0
                           /\ h[At(h[parent].children, child_index - 1)].size > min
                canRight == child_index < nchildren - 1
                            /\ h[At(h[parent].children, child_index + 1)].size > min
            IN IF child_index = -1 THEN Res(h, root, FALSE)
               ELSE IF canLeft
               THEN Res(IF leaf THEN LeafBorrowLeft(h, parent, child_index)
                                ELSE borrow_from_left(h, parent, child_index), root, FALSE)
               ELSE IF canRight
               THEN Res(IF leaf THEN LeafBorrowRight(h, parent, child_index)
                                ELSE borrow_from_right(h, parent, child_index), root, FALSE)
               ELSE IF child_index = 0 /\ nchildren < 2 THEN Res(h, root, TRUE)
               ELSE
               LET h1 == IF child_index > 0
                         THEN merge_nodes(h, parent, child_index - 1, leaf)
                         ELSE merge_nodes(h, parent, child_index, leaf)
               IN IF is_underloaded(h1[parent], order) /\ parent # root
                  THEN handle_underflow(h1, root, parent, order)
                  ELSE IF parent = root /\ h1[parent].size = 0
                  THEN \* root = parent->children[0]; root->parent = nullptr; delete parent
                       LET new_root == At(h1[parent].children, 0)
                           h2 == [h1 EXCEPT ![new_root] = [@ EXCEPT !.parent = Null]]
                       IN Res(DeleteNode(h2, parent), new_root, FALSE)
                  ELSE Res(h1, root, FALSE)

\* ------------------------------------------------------------- latches
CanLock(n) == n.lw = 0 /\ n.lr = {}
CanLockShared(n) == n.lw = 0
Lock(h, n, t) == [h EXCEPT ![n] = [@ EXCEPT !.lw = t]]
LockShared(h, n, t) == [h EXCEPT ![n] = [@ EXCEPT !.lr = @ \cup {t}]]
UnlockShared(h, n, t) == [h EXCEPT ![n] = [@ EXCEPT !.lr = @ \ {t}]]
\* mutex.unlock() on every node of queue q, front first.
UnlockAll(h, q) ==
    [i \in DOMAIN h |-> IF i \in Range(q) THEN [h[i] EXCEPT !.lw = 0] ELSE h[i]]

\* ------------------------------------------------------------ the state
VARIABLES
    order,       \* BPlusTree::order
    heap,        \* every node ever allocated
    root,        \* BPlusTree::root
    head_leaf,   \* BPlusTree::head_leaf
    tree_mutex,  \* BPlusTree::tree_mutex: [w: exclusive holder or 0, r: shared holders]
    pc,          \* where each thread is
    loc,         \* each thread's arguments and locals
    ret,         \* each thread's last completed call and what it returned
    budget,      \* calls each thread may still issue after the load
    phase,       \* "load" (thread 1 fills the tree) or "run"
    loaded,      \* keys loaded so far
    model,       \* the map the completed inserts and removes define
    disk,        \* the snapshot file pair, or NoFile
    hist         \* two-thread runs: each thread's inserts and removes after the load

vars == <<order, heap, root, head_leaf, tree_mutex, pc, loc, ret, budget, phase,
          loaded, model, disk, hist>>

NoFile == [exists |-> FALSE, header |-> <<>>, data |-> <<>>, model |-> <<>>]
\* The file pair of an empty BPlusTree<std::string>: key-type tag 1.
ForeignFile == [exists |-> TRUE, header |-> <<1, 3, -1, -1>>, data |-> <<>>,
                model |-> <<>>]
\* The header's key-type tag is the one of Key = int.
KeyTypeMatches(d) == d.header[1] = 0
\* A file pair cut off after its second record: the header names root 0 and
\* head leaf 1; record 0 is an internal node with key 3 and the child ids 1
\* and 2, record 1 is the leaf [1] with next-leaf id 2, and there is no
\* record 2.
TornFile ==
    [exists |-> TRUE, header |-> <<0, 3, 0, 1>>,
     data |-> <<[id |-> 0, is_leaf |-> FALSE, size |-> 1, keys |-> <<3>>,
                 values |-> <<>>, next |-> -1, children |-> <<1, 2>>],
                [id |-> 1, is_leaf |-> TRUE, size |-> 1, keys |-> <<1>>,
                 values |-> <<1>>, next |-> 2, children |-> <<>>]>>,
     model |-> [k \in AllKeys |-> 0]]
Loc0 == [op |-> "none", key |-> 0, val |-> 0, node |-> Null, child |-> Null,
         queue |-> <<>>, write |-> FALSE, idx |-> -1, res |-> <<>>]
NoRet == [op |-> "none", key |-> 0, val |-> 0, res |-> <<>>]
Concurrent == hist # <<>>
\* How many keys the load may insert.
LoadLimit == IF Concurrent THEN MaxLoad ELSE MaxSeqLoad

InitCommon ==
    /\ order \in Orders
    /\ heap = <<>>
    /\ root = Null
    /\ head_leaf = Null
    /\ tree_mutex = [w |-> 0, r |-> {}]
    /\ pc = [t \in Threads |-> "idle"]
    /\ loc = [t \in Threads |-> Loc0]
    /\ ret = [t \in Threads |-> NoRet]
    /\ phase = "load"
    /\ loaded = 0
    /\ model = [k \in AllKeys |-> 0]

\* One thread: the load, then MaxOps calls.
Init ==
    /\ InitCommon
    /\ budget = [t \in Threads |-> IF t = 1 THEN MaxOps ELSE 0]
    /\ hist = <<>>
    /\ disk \in {NoFile, ForeignFile}

\* One thread, and the snapshot files at hand are a cut-off pair.
InitFiles ==
    /\ InitCommon
    /\ budget = [t \in Threads |-> IF t = 1 THEN MaxOps ELSE 0]
    /\ hist = <<>>
    /\ disk = TornFile

\* Two threads: the load by thread 1, then MaxConc calls of each thread.
InitConc ==
    /\ InitCommon
    /\ budget = [t \in Threads |-> MaxConc]
    /\ hist = [t \in Threads |-> <<>>]
    /\ disk = NoFile

\* ------------------------------------------------------- step helpers
Go(t, to, l) == pc' = [pc EXCEPT ![t] = to] /\ loc' = [loc EXCEPT ![t] = l]

\* The calls that change what the tree holds.
Mutators == {"insert", "remove", "deserialize"}

\* The calls of hist that had returned: what a call beginning now follows.
Returned == {<<u, i>> \in Threads \X (1..MaxConc + 1) : i <= Len(hist[u]) /\ hist[u][i].done}

\* A call begins after the load: it is charged and, in a two-thread run, recorded.
Charge(t, op, k, v, done) ==
    /\ budget' = [budget EXCEPT ![t] = @ - 1]
    /\ hist' = IF Concurrent /\ op \in Mutators
               THEN [hist EXCEPT ![t] = Append(@, [op |-> op, key |-> k, val |-> v,
                                                   preds |-> Returned, done |-> done])]
               ELSE hist

\* The call r of thread t has returned.
MarkDone(t, r) ==
    IF Concurrent /\ phase = "run" /\ r.op \in Mutators
    THEN [hist EXCEPT ![t] = [@ EXCEPT ![Len(@)] = [@ EXCEPT !.done = TRUE]]]
    ELSE hist

ModelAfter(r) ==
    CASE r.op = "insert" -> [model EXCEPT ![r.key] = r.val]
      [] r.op = "remove" -> [model EXCEPT ![r.key] = 0]
      [] r.op = "deserialize" /\ r.val = 1 -> disk.model
      [] r.op = "deserialize" /\ r.val = 0 /\ disk.exists -> [k \in AllKeys |-> 0]
      [] OTHER -> model

TreeUnlock(t) == [w |-> IF tree_mutex.w = t THEN 0 ELSE tree_mutex.w,
                  r |-> tree_mutex.r \ {t}]

\* The call returns r: the lock on tree_mutex goes out of scope.
Return(t, r) ==
    /\ Go(t, "idle", Loc0)
    /\ ret' = [ret EXCEPT ![t] = r]
    /\ tree_mutex' = TreeUnlock(t)
    /\ model' = ModelAfter(r)

\* The thread never returns from the call: it keeps what it holds.
Fault(t) ==
    /\ pc' = [pc EXCEPT ![t] = "fault"]
    /\ UNCHANGED <<order, heap, root, head_leaf, tree_mutex, loc, ret, budget, phase,
                   loaded, model, disk, hist>>

\* What touching the mutex of node n can do: go on, or never return when the
\* node has been deleted.
Touch(ns) == IF \E n \in ns : heap[n].st = "freed" THEN {"go", "fault"} ELSE {"go"}

CallOf(l, v, res) == [op |-> l.op, key |-> l.key, val |-> v, res |-> res]

\* ------------------------------------------------------------ insert
\* insert, up to find_leaf: shared lock on tree_mutex, then the root is created
\* under root_mutex if there is none.
BeginInsert(t) ==
    /\ pc[t] = "idle"
    /\ tree_mutex.w = 0
    /\ \E k \in AllKeys, v \in Vals :
         /\ IF phase = "load"
            THEN /\ t = 1 /\ loaded < LoadLimit /\ k = LoadKey(loaded + 1) /\ v = LoadVal
                 /\ loaded' = loaded + 1
                 /\ UNCHANGED <<budget, hist>>
            ELSE /\ budget[t] > 0 /\ k \in Keys /\ (Concurrent => v = t)
                 /\ Charge(t, "insert", k, v, FALSE)
                 /\ UNCHANGED loaded
         /\ Go(t, "fl_root", [Loc0 EXCEPT !.op = "insert", !.key = k, !.val = v, !.write = TRUE])
    /\ tree_mutex' = [tree_mutex EXCEPT !.r = @ \cup {t}]
    /\ IF root = Null
       THEN /\ heap' = Append(heap, LeafNode)
            /\ root' = Len(heap) + 1
            /\ head_leaf' = Len(heap) + 1
       ELSE UNCHANGED <<heap, root, head_leaf>>
    /\ UNCHANGED <<order, ret, phase, model, disk>>

\* The load ends; the calls that follow are drawn freely.
StartRun ==
    /\ phase = "load"
    /\ pc[1] = "idle"
    /\ phase' = "run"
    /\ UNCHANGED <<order, heap, root, head_leaf, tree_mutex, pc, loc, ret, budget,
                   loaded, model, disk, hist>>

\* ----------------------------------------------------------- find_leaf
\* find_leaf: node = root under root_mutex (a null root returns nullptr, which
\* every caller dereferences).
FLReadRoot(t) ==
    /\ pc[t] = "fl_root"
    /\ IF root = Null
       THEN Fault(t)
       ELSE /\ Go(t, "fl_latch", [loc[t] EXCEPT !.node = root])
            /\ UNCHANGED <<order, heap, root, head_leaf, tree_mutex, ret, budget, phase,
                           loaded, model, disk, hist>>

\* find_leaf: node->mutex.lock() and push, or node->mutex.lock_shared().
FLLatch(t) ==
    /\ pc[t] = "fl_latch"
    /\ LET n == loc[t].node
       IN \E out \in Touch({n}) :
            IF out = "fault" THEN Fault(t)
            ELSE /\ IF loc[t].write THEN CanLock(heap[n]) ELSE CanLockShared(heap[n])
                 /\ heap' = IF loc[t].write THEN Lock(heap, n, t) ELSE LockShared(heap, n, t)
                 /\ Go(t, "fl_loop", [loc[t] EXCEPT !.queue = IF loc[t].write THEN <<n>> ELSE <<>>])
                 /\ UNCHANGED <<order, root, head_leaf, tree_mutex, ret, budget, phase,
                                loaded, model, disk, hist>>

\* The descent rule of find_leaf: the index of the child to follow.
ChildSlot(n, key) ==
    LET index == find_index(n, key)
    IN IF index < n.size /\ index < Len(n.keys) /\ At(n.keys, index) = key
       THEN index + 1 ELSE index

\* find_leaf at an internal node: the child is chosen; a reader releases the
\* node before it asks for the child.
FLChoose(t) ==
    /\ pc[t] = "fl_loop"
    /\ ~heap[loc[t].node].is_leaf
    /\ LET n == loc[t].node
           index == ChildSlot(heap[n], loc[t].key)
       IN IF index >= Len(heap[n].children)
          THEN Fault(t)
          ELSE /\ heap' = IF loc[t].write THEN heap ELSE UnlockShared(heap, n, t)
               /\ Go(t, "fl_child", [loc[t] EXCEPT !.child = At(heap[n].children, index)])
               /\ UNCHANGED <<order, root, head_leaf, tree_mutex, ret, budget, phase,
                              loaded, model, disk, hist>>

\* FLLockChild of a writer that releases its ancestors at every child, safe
\* or not.
FLLockChildEager(t) ==
    /\ pc[t] = "fl_child"
    /\ LET c == loc[t].child
       IN \E out \in Touch({c}) :
            IF out = "fault" THEN Fault(t)
            ELSE /\ IF loc[t].write THEN CanLock(heap[c]) ELSE CanLockShared(heap[c])
                 /\ LET safe == loc[t].write
                        h1 == IF loc[t].write THEN Lock(heap, c, t) ELSE LockShared(heap, c, t)
                        q == IF ~loc[t].write THEN <<>>
                             ELSE IF safe THEN <<c>> ELSE Append(loc[t].queue, c)
                    IN /\ heap' = IF safe THEN UnlockAll(h1, loc[t].queue) ELSE h1
                       /\ Go(t, "fl_loop", [loc[t] EXCEPT !.node = c, !.child = Null, !.queue = q])
                 /\ UNCHANGED <<order, root, head_leaf, tree_mutex, ret, budget, phase,
                                loaded, model, disk, hist>>

\* find_leaf: the child is latched; a writer that finds it safe releases every
\* ancestor it holds, front of the queue first, and pushes the child.
FLLockChild(t) ==
    /\ pc[t] = "fl_child"
    /\ LET c == loc[t].child
       IN \E out \in Touch({c}) :
            IF out = "fault" THEN Fault(t)
            ELSE /\ IF loc[t].write THEN CanLock(heap[c]) ELSE CanLockShared(heap[c])
                 /\ LET safe == loc[t].write /\ is_safe(heap[c], order)
                        h1 == IF loc[t].write THEN Lock(heap, c, t) ELSE LockShared(heap, c, t)
                        q == IF ~loc[t].write THEN <<>>
                             ELSE IF safe THEN <<c>> ELSE Append(loc[t].queue, c)
                    IN /\ heap' = IF safe THEN UnlockAll(h1, loc[t].queue) ELSE h1
                       /\ Go(t, "fl_loop", [loc[t] EXCEPT !.node = c, !.child = Null, !.queue = q])
                 /\ UNCHANGED <<order, root, head_leaf, tree_mutex, ret, budget, phase,
                                loaded, model, disk, hist>>

\* insert: leaf->insert_in_node, then handle_split.
InsertApply(t) ==
    /\ pc[t] = "fl_loop"
    /\ heap[loc[t].node].is_leaf
    /\ loc[t].op = "insert"
    /\ \E oob \in OobOutcomes :
         LET n == loc[t].node
             h1 == [heap EXCEPT ![n] = LeafInsertInNode(@, loc[t].key, loc[t].val)]
             r == handle_split(h1, root, n, order, oob)
         IN /\ heap' = r.h
            /\ root' = r.root
            /\ pc' = [pc EXCEPT ![t] = IF r.abort THEN "fault" ELSE "release"]
    /\ UNCHANGED <<order, head_leaf, tree_mutex, loc, ret, budget, phase, loaded, model,
                   disk, hist>>

\* The release loop of insert and remove: every queued node is unlocked, front
\* first.  remove returns after it; insert goes on to print_tree.
Release(t) ==
    /\ pc[t] = "release"
    /\ \E out \in Touch(Range(loc[t].queue)) :
         IF out = "fault" THEN Fault(t)
         ELSE /\ heap' = UnlockAll(heap, loc[t].queue)
              /\ IF loc[t].op = "insert"
                 THEN /\ Go(t, "ins_print", [loc[t] EXCEPT !.queue = <<>>])
                      /\ UNCHANGED <<ret, tree_mutex, model, hist>>
                 ELSE /\ Return(t, CallOf(loc[t], 0, <<>>))
                      /\ hist' = MarkDone(t, loc[t])
              /\ UNCHANGED <<order, root, head_leaf, budget, phase, loaded, disk>>

\* The nodes print_tree visits: everything below root, read without a latch.
Printed == IF root = Null THEN {} ELSE Subtree(heap, {root}, Len(heap))

\* insert: print_tree, then the call returns.
InsertPrint(t) ==
    /\ pc[t] = "ins_print"
    /\ \E out \in Touch(Printed) :
         IF out = "fault" THEN Fault(t)
         ELSE /\ Return(t, CallOf(loc[t], loc[t].val, <<>>))
              /\ hist' = MarkDone(t, loc[t])
              /\ UNCHANGED <<order, heap, root, head_leaf, budget, phase, loaded, disk>>

\* ------------------------------------------------------------ remove
\* remove, up to find_leaf: shared lock on tree_mutex; an empty tree returns.
BeginRemove(t) ==
    /\ pc[t] = "idle"
    /\ tree_mutex.w = 0
    /\ phase = "run"
    /\ budget[t] > 0
    /\ \E k \in Keys :
         /\ Charge(t, "remove", k, 0, root = Null)
         /\ IF root = Null
            THEN /\ Go(t, "idle", Loc0)
                 /\ ret' = [ret EXCEPT ![t] = [NoRet EXCEPT !.op = "remove", !.key = k]]
                 /\ model' = [model EXCEPT ![k] = 0]
                 /\ UNCHANGED tree_mutex
            ELSE /\ Go(t, "fl_root", [Loc0 EXCEPT !.op = "remove", !.key = k, !.write = TRUE])
                 /\ tree_mutex' = [tree_mutex EXCEPT !.r = @ \cup {t}]
                 /\ UNCHANGED <<ret, model>>
    /\ UNCHANGED <<order, heap, root, head_leaf, phase, loaded, disk>>

\* remove at the leaf: an absent key goes straight to the release loop;
\* otherwise leaf->remove_from_node, then handle_underflow.
RemoveApply(t) ==
    /\ pc[t] = "fl_loop"
    /\ heap[loc[t].node].is_leaf
    /\ loc[t].op = "remove"
    /\ LET n == loc[t].node
           index == find_index(heap[n], loc[t].key)
           h1 == [heap EXCEPT ![n] = LeafRemoveFromNode(@, index)]
           r == IF LeafHas(heap[n], loc[t].key)
                THEN handle_underflow(h1, root, n, order)
                ELSE Res(heap, root, FALSE)
       IN /\ heap' = r.h
          /\ root' = r.root
          /\ pc' = [pc EXCEPT ![t] = IF r.abort THEN "fault" ELSE "release"]
    /\ UNCHANGED <<order, head_leaf, tree_mutex, loc, ret, budget, phase, loaded, model,
                   disk, hist>>

\* -------------------------------------------------------------- find
\* A value read from leaf n at index i; any value g when the leaf was deleted.
LeafValue(n, i, g) == IF n.st = "freed" \/ i >= Len(n.values) THEN g ELSE At(n.values, i)

\* find, up to find_leaf: shared lock on tree_mutex; `if (!root) return 0` is
\* read without root_mutex.
BeginFind(t) ==
    /\ pc[t] = "idle"
    /\ tree_mutex.w = 0
    /\ phase = "run"
    /\ budget[t] > 0
    /\ \E k \in Keys :
         /\ Charge(t, "find", k, 0, FALSE)
         /\ IF root = Null
            THEN /\ Go(t, "idle", Loc0)
                 /\ ret' = [ret EXCEPT ![t] = [NoRet EXCEPT !.op = "find", !.key = k]]
                 /\ UNCHANGED tree_mutex
            ELSE /\ Go(t, "fl_root", [Loc0 EXCEPT !.op = "find", !.key = k])
                 /\ tree_mutex' = [tree_mutex EXCEPT !.r = @ \cup {t}]
                 /\ UNCHANGED ret
    /\ UNCHANGED <<order, heap, root, head_leaf, phase, loaded, model, disk>>

\* find at the leaf: the value at the key's position or 0, unlock_shared, return.
FindRead(t) ==
    /\ pc[t] = "fl_loop"
    /\ heap[loc[t].node].is_leaf
    /\ loc[t].op = "find"
    /\ \E g \in 0..MaxVal :
         LET n == loc[t].node
             index == find_index(heap[n], loc[t].key)
             result == IF heap[n].st = "freed" THEN g
                       ELSE IF LeafHas(heap[n], loc[t].key)
                            THEN LeafValue(heap[n], index, g) ELSE 0
         IN /\ heap' = UnlockShared(heap, n, t)
            /\ Return(t, CallOf(loc[t], result, <<>>))
    /\ UNCHANGED <<order, root, head_leaf, budget, phase, loaded, disk, hist>>

\* -------------------------------------------------------- range_find
\* The pairs a scan may ask for: a point, an empty range, up to the last key.
RangeArgs == {a \in Keys \X (0..MaxKey) : a[2] \in {a[1] - 1, a[1], a[1] + 2, MaxKey}}

\* range_find, up to find_leaf: shared lock on tree_mutex; an empty tree
\* returns no pair.
BeginRange(t) ==
    /\ pc[t] = "idle"
    /\ tree_mutex.w = 0
    /\ phase = "run"
    /\ budget[t] > 0
    /\ \E a \in RangeArgs :
         /\ Charge(t, "range", a[1], a[2], FALSE)
         /\ IF root = Null
            THEN /\ Go(t, "idle", Loc0)
                 /\ ret' = [ret EXCEPT ![t] = [NoRet EXCEPT !.op = "range", !.key = a[1],
                                                            !.val = a[2]]]
                 /\ UNCHANGED tree_mutex
            ELSE /\ Go(t, "fl_root", [Loc0 EXCEPT !.op = "range", !.key = a[1], !.val = a[2]])
                 /\ tree_mutex' = [tree_mutex EXCEPT !.r = @ \cup {t}]
                 /\ UNCHANGED ret
    /\ UNCHANGED <<order, heap, root, head_leaf, phase, loaded, model, disk>>

\* The for loop of range_find over one leaf from index i: the pairs collected
\* and whether a key beyond end stopped the scan.
RECURSIVE ScanLeaf(_, _, _, _, _, _)
ScanLeaf(n, i, start, end, acc, g) ==
    IF i >= n.size \/ i >= Len(n.keys) THEN [res |-> acc, stop |-> FALSE]
    ELSE LET k == At(n.keys, i)
         IN IF k >= start /\ k <= end
            THEN ScanLeaf(n, i + 1, start, end, Append(acc, <<k, LeafValue(n, i, g)>>), g)
            ELSE IF k > end THEN [res |-> acc, stop |-> TRUE]
            ELSE ScanLeaf(n, i + 1, start, end, acc, g)

\* range_find on the latched leaf: scan it, unlock_shared, then return or go
\* for current->next.
RangeScan(t) ==
    /\ pc[t] = "fl_loop"
    /\ heap[loc[t].node].is_leaf
    /\ loc[t].op = "range"
    /\ \E g \in 0..MaxVal :
         LET n == loc[t].node
             start_index == IF loc[t].idx = -1 THEN find_index(heap[n], loc[t].key)
                            ELSE loc[t].idx
             sc == ScanLeaf(heap[n], start_index, loc[t].key, loc[t].val, loc[t].res, g)
             next == heap[n].next
         IN /\ heap' = UnlockShared(heap, n, t)
            /\ IF sc.stop \/ next = Null
               THEN Return(t, CallOf(loc[t], loc[t].val, sc.res))
               ELSE /\ Go(t, "rng_next", [loc[t] EXCEPT !.child = next, !.res = sc.res])
                    /\ UNCHANGED <<ret, tree_mutex, model>>
    /\ UNCHANGED <<order, root, head_leaf, budget, phase, loaded, disk, hist>>

\* range_find: next->mutex.lock_shared(), start_index = 0, current = next.
RangeLockNext(t) ==
    /\ pc[t] = "rng_next"
    /\ LET c == loc[t].child
       IN \E out \in Touch({c}) :
            IF out = "fault" THEN Fault(t)
            ELSE /\ CanLockShared(heap[c])
                 /\ heap' = LockShared(heap, c, t)
                 /\ Go(t, "fl_loop", [loc[t] EXCEPT !.node = c, !.child = Null, !.idx = 0])
                 /\ UNCHANGED <<order, root, head_leaf, tree_mutex, ret, budget, phase,
                                loaded, model, disk, hist>>

\* ----------------------------------------------------------- serialize
\* node_ids after `node_ids[root] = next_id++` and, when head_leaf is set,
\* `node_ids[head_leaf] = next_id++`; -1 stands for "not in the map".
FirstIds(h, r, hl) ==
    [n \in DOMAIN h |-> IF n = hl THEN 1 ELSE IF n = r THEN 0 ELSE -1]

\* The children serialize reads of node n: children[0..size].
ReadChildren(n) == SubSeq(n.children, 1, Min(n.size + 1, Len(n.children)))

\* The BFS of serialize: every child without an id gets the next one and is queued.
RECURSIVE AssignChildren(_, _, _, _)
AssignChildren(cs, ids, next_id, q) ==
    IF cs = <<>> THEN [ids |-> ids, next_id |-> next_id, q |-> q]
    ELSE IF ids[Head(cs)] = -1
         THEN AssignChildren(Tail(cs), [ids EXCEPT ![Head(cs)] = next_id], next_id + 1,
                             Append(q, Head(cs)))
         ELSE AssignChildren(Tail(cs), ids, next_id, q)

RECURSIVE AssignIds(_, _, _, _)
AssignIds(h, q, ids, next_id) ==
    IF q = <<>> THEN ids
    ELSE LET node == Head(q)
             a == IF h[node].is_leaf THEN [ids |-> ids, next_id |-> next_id, q |-> Tail(q)]
                  ELSE AssignChildren(h[node].children, ids, next_id, Tail(q))
         IN AssignIds(h, a.q, a.ids, a.next_id)

\* node_ids[n] as operator[] gives it: 0 for a node that was never given an id.
IdOf(ids, n) == IF ids[n] = -1 THEN 0 ELSE ids[n]

\* One record of the data file.
NodeRecord(n, id, ids, g) ==
    [id |-> id, is_leaf |-> n.is_leaf, size |-> n.size,
     keys |-> SubSeq(n.keys, 1, Min(n.size, Len(n.keys))),
     values |-> IF n.is_leaf THEN [i \in 1..n.size |-> LeafValue(n, i - 1, g)] ELSE <<>>,
     next |-> IF n.is_leaf /\ n.next # Null THEN IdOf(ids, n.next) ELSE -1,
     children |-> IF n.is_leaf THEN <<>>
                  ELSE [i \in 1..Len(ReadChildren(n)) |-> IdOf(ids, ReadChildren(n)[i])]]

\* The DFS of serialize: the stack's top is the head of s; children are pushed
\* last to first, so children[0] is written next.
RECURSIVE WriteNodes(_, _, _, _, _)
WriteNodes(h, s, ids, g, out) ==
    IF s = <<>> THEN out
    ELSE LET node == Head(s)
             rest == IF h[node].is_leaf THEN Tail(s) ELSE ReadChildren(h[node]) \o Tail(s)
         IN WriteNodes(h, rest, ids, g, Append(out, NodeRecord(h[node], IdOf(ids, node), ids, g)))

\* The file pair serialize writes; m is the map the tree stands for.
SerializeFiles(h, r, hl, ord, m, g) ==
    LET ids == IF r = Null THEN <<>>
               ELSE AssignIds(h, <<r>>, FirstIds(h, r, hl), IF hl # Null THEN 2 ELSE 1)
        root_id == IF r = Null THEN -1 ELSE ids[r]
        head_leaf_id == IF r = Null \/ hl = Null THEN -1 ELSE ids[hl]
    IN [exists |-> TRUE,
        header |-> <<0, ord, root_id, head_leaf_id>>,
        data |-> IF r = Null THEN <<>> ELSE WriteNodes(h, <<r>>, ids, g, <<>>),
        model |-> m]

\* BeginSerialize with a lock that does not wait for the shared holders of
\* tree_mutex.
BeginSerializeNoWait(t) ==
    /\ pc[t] = "idle"
    /\ phase = "run"
    /\ budget[t] > 0
    /\ tree_mutex.w = 0
    /\ tree_mutex' = [tree_mutex EXCEPT !.w = t]
    /\ Charge(t, "serialize", 0, 0, FALSE)
    /\ Go(t, "ser", [Loc0 EXCEPT !.op = "serialize"])
    /\ UNCHANGED <<order, heap, root, head_leaf, ret, phase, loaded, model, disk>>

\* serialize: the exclusive lock on tree_mutex.
BeginSerialize(t) ==
    /\ pc[t] = "idle"
    /\ phase = "run"
    /\ budget[t] > 0
    /\ tree_mutex.w = 0 /\ tree_mutex.r = {}
    /\ tree_mutex' = [tree_mutex EXCEPT !.w = t]
    /\ Charge(t, "serialize", 0, 0, FALSE)
    /\ Go(t, "ser", [Loc0 EXCEPT !.op = "serialize"])
    /\ UNCHANGED <<order, heap, root, head_leaf, ret, phase, loaded, model, disk>>

\* serialize: ids, header, records; the lock goes out of scope.
SerializeDo(t) ==
    /\ pc[t] = "ser"
    /\ \E out \in Touch(Printed), g \in 0..MaxVal :
         IF out = "fault" THEN Fault(t)
         ELSE /\ disk' = SerializeFiles(heap, root, head_leaf, order, model, g)
              /\ Return(t, CallOf(loc[t], 1, <<>>))
              /\ UNCHANGED <<order, heap, root, head_leaf, budget, phase, loaded, hist>>

\* --------------------------------------------------------- deserialize
\* id_to_node after the read loop: the node built from the last record that
\* carries the id (nodes are allocated after base), or Null.
IdToNode(recs, base, id) ==
    LET js == {j \in 1..Len(recs) : recs[j].id = id}
    IN IF js = {} THEN Null ELSE base + (CHOOSE j \in js : \A i \in js : i <= j)

\* The child ids of a record that id_to_node knows, in file order.
RECURSIVE KnownChildren(_, _, _)
KnownChildren(recs, base, cids) ==
    IF cids = <<>> THEN <<>>
    ELSE LET c == IdToNode(recs, base, Head(cids))
         IN (IF c = Null THEN <<>> ELSE <<c>>) \o KnownChildren(recs, base, Tail(cids))

\* The tree deserialize builds from the file pair d, its nodes appended to h.
Restore(h, d) ==
    LET recs == d.data
        base == Len(h)
        Linked(j) == IdToNode(recs, base, recs[j].id) = base + j
        NextOf(j) == IF recs[j].is_leaf /\ recs[j].next # -1 /\ Linked(j)
                     THEN IdToNode(recs, base, recs[j].next) ELSE Null
        KidsOf(j) == IF ~recs[j].is_leaf /\ Linked(j)
                     THEN KnownChildren(recs, base, recs[j].children) ELSE <<>>
        PrevOf(j) == LET ls == {i \in 1..Len(recs) : NextOf(i) = base + j}
                     IN IF ls = {} THEN Null ELSE base + (CHOOSE i \in ls : TRUE)
        ParentOf(j) == LET ps == {i \in 1..Len(recs) : base + j \in Range(KidsOf(i))}
                       IN IF ps = {} THEN Null ELSE base + (CHOOSE i \in ps : TRUE)
        Built(j) == IF recs[j].is_leaf
                    THEN [LeafNode EXCEPT !.size = recs[j].size, !.keys = recs[j].keys,
                                          !.values = recs[j].values, !.next = NextOf(j),
                                          !.prev = PrevOf(j), !.parent = ParentOf(j)]
                    ELSE [InternalNode EXCEPT !.size = recs[j].size, !.keys = recs[j].keys,
                                              !.children = KidsOf(j), !.parent = ParentOf(j)]
        root_id == d.header[3]
        head_leaf_id == d.header[4]
    IN IF root_id = -1
       THEN [h |-> h, root |-> Null, head_leaf |-> Null, order |-> d.header[2]]
       ELSE [h |-> h \o [j \in 1..Len(recs) |-> Built(j)],
             root |-> IdToNode(recs, base, root_id),
             head_leaf |-> IF head_leaf_id = -1 THEN Null
                           ELSE IdToNode(recs, base, head_leaf_id),
             order |-> d.header[2]]

\* deserialize: the exclusive lock on tree_mutex.
BeginDeserialize(t) ==
    /\ pc[t] = "idle"
    /\ phase = "run"
    /\ budget[t] > 0
    /\ tree_mutex.w = 0 /\ tree_mutex.r = {}
    /\ tree_mutex' = [tree_mutex EXCEPT !.w = t]
    /\ Charge(t, "deserialize", 0, 0, FALSE)
    /\ Go(t, "deser", [Loc0 EXCEPT !.op = "deserialize"])
    /\ UNCHANGED <<order, heap, root, head_leaf, ret, phase, loaded, model, disk>>

\* deserialize that clears the current tree before it opens the files.
DeserializeClearFirst(t) ==
    /\ pc[t] = "deser"
    /\ \E out \in (IF root # Null THEN Touch({root}) ELSE {"go"}) :
         IF out = "fault" THEN Fault(t)
         ELSE LET cleared == IF root = Null THEN heap ELSE DeleteNode(heap, root)
              IN /\ IF ~disk.exists \/ ~KeyTypeMatches(disk)
                    THEN /\ heap' = cleared
                         /\ root' = Null
                         /\ head_leaf' = Null
                         /\ order' = order
                         /\ Return(t, CallOf(loc[t], 0, <<>>))
                    ELSE LET r == Restore(cleared, disk)
                         IN /\ heap' = r.h
                            /\ root' = r.root
                            /\ head_leaf' = r.head_leaf
                            /\ order' = r.order
                            /\ Return(t, CallOf(loc[t], 1, <<>>))
                 /\ hist' = MarkDone(t, loc[t])
                 /\ UNCHANGED <<budget, phase, loaded, disk>>

\* deserialize: a file that cannot be opened throws before anything is
\* touched; otherwise `delete root` and root = head_leaf = nullptr, then a
\* wrong key-type tag throws, and else the tree is rebuilt from the files.
DeserializeDo(t) ==
    /\ pc[t] = "deser"
    /\ \E out \in (IF disk.exists /\ root # Null THEN Touch({root}) ELSE {"go"}) :
         IF out = "fault" THEN Fault(t)
         ELSE LET cleared == IF root = Null THEN heap ELSE DeleteNode(heap, root)
              IN /\ IF ~disk.exists
                    THEN /\ UNCHANGED <<order, heap, root, head_leaf>>
                         /\ Return(t, CallOf(loc[t], 0, <<>>))
                    ELSE IF ~KeyTypeMatches(disk)
                    THEN /\ heap' = cleared
                         /\ root' = Null
                         /\ head_leaf' = Null
                         /\ order' = order
                         /\ Return(t, CallOf(loc[t], 0, <<>>))
                    ELSE LET r == Restore(cleared, disk)
                         IN /\ heap' = r.h
                            /\ root' = r.root
                            /\ head_leaf' = r.head_leaf
                            /\ order' = r.order
                            /\ Return(t, CallOf(loc[t], 1, <<>>))
                 /\ hist' = MarkDone(t, loc[t])
                 /\ UNCHANGED <<budget, phase, loaded, disk>>

\* --------------------------------------------------------------- runs
Step(t) ==
    \/ BeginInsert(t)
    \/ BeginRemove(t)
    \/ BeginFind(t)
    \/ BeginRange(t)
    \/ FLReadRoot(t)
    \/ FLLatch(t)
    \/ FLChoose(t)
    \/ FLLockChild(t)
    \/ InsertApply(t)
    \/ RemoveApply(t)
    \/ Release(t)
    \/ InsertPrint(t)
    \/ FindRead(t)
    \/ RangeScan(t)
    \/ RangeLockNext(t)
    \/ BeginSerialize(t)
    \/ SerializeDo(t)
    \/ BeginDeserialize(t)
    \/ DeserializeDo(t)

Next == StartRun \/ \E t \in Threads : Step(t)

Spec == Init /\ [][Next]_vars
SpecConc == InitConc /\ [][Next]_vars
SpecFiles == InitFiles /\ [][Next]_vars

\* ------------------------------------------------- reads of a quiet tree
\* The leaf find_leaf reaches for key from node n when no other thread runs.
RECURSIVE LeafFor(_, _, _)
LeafFor(h, n, key) ==
    IF h[n].is_leaf THEN n
    ELSE LET index == ChildSlot(h[n], key)
         IN IF index >= Len(h[n].children) THEN Null
            ELSE LeafFor(h, At(h[n].children, index), key)

\* The nodes find_leaf latches on the way to key.
RECURSIVE PathTo(_, _, _)
PathTo(h, n, key) ==
    IF h[n].is_leaf THEN {n}
    ELSE LET index == ChildSlot(h[n], key)
         IN IF index >= Len(h[n].children) THEN {n}
            ELSE {n} \cup PathTo(h, At(h[n].children, index), key)

\* What find(key) can return on the tree (h, r) when it runs alone: one value,
\* or anything once the path runs through a deleted node.
FindResults(h, r, key) ==
    IF r = Null THEN {0}
    ELSE IF \E n \in PathTo(h, r, key) : h[n].st = "freed" THEN 0..MaxVal
    ELSE LET leaf == LeafFor(h, r, key)
         IN IF leaf = Null THEN 0..MaxVal
            ELSE IF LeafHas(h[leaf], key)
                 THEN {At(h[leaf].values, find_index(h[leaf], key))} ELSE {0}

\* The pairs range_find(start, end) returns on a tree without deleted nodes when
\* it runs alone, from leaf n and index i on.
RECURSIVE RangeFrom(_, _, _, _, _, _)
RangeFrom(h, n, i, start, end, acc) ==
    LET sc == ScanLeaf(h[n], i, start, end, acc, 0)
    IN IF sc.stop \/ h[n].next = Null THEN sc.res
       ELSE RangeFrom(h, h[n].next, 0, start, end, sc.res)

RangeResult(h, r, start, end) ==
    IF r = Null THEN <<>>
    ELSE LET leaf == LeafFor(h, r, start)
         IN RangeFrom(h, leaf, find_index(h[leaf], start), start, end, <<>>)

\* The entries of the map m with lo <= key <= hi, ascending.
RECURSIVE MapRange(_, _, _)
MapRange(m, lo, hi) ==
    IF lo > hi \/ lo \notin DOMAIN m THEN <<>>
    ELSE (IF m[lo] # 0 THEN <<<<lo, m[lo]>>>> ELSE <<>>) \o MapRange(m, lo + 1, hi)

\* ------------------------------------------------------ the properties
\* C1: one thread, starting from the empty tree: after any sequence of
\* insert(k, v) and remove(k), find(k) returns the value of the latest
\* insert(k, .) not followed by a remove(k), and 0 when there is none.
C1_SequentialFindRefinesMap ==
    (~Concurrent /\ ~disk.exists /\ ret[1].op = "find")
        => ret[1].val = model[ret[1].key]

\* C2: one thread: range_find(lo, hi) returns exactly the stored entries with
\* lo <= k <= hi, each once, in strictly ascending key order.
C2_SequentialRangeIsExact ==
    (~Concurrent /\ ~disk.exists /\ ret[1].op = "range")
        => ret[1].res = MapRange(model, ret[1].key, ret[1].val)

\* C9: the tree that deserialize builds, in a fresh tree, from the files
\* serialize wrote of a state S answers every find and every range_find as S
\* does.
C9_SnapshotRoundTrip ==
    (~Concurrent /\ disk.exists /\ KeyTypeMatches(disk)) =>
        LET f == Restore(<<>>, disk)
        IN /\ \A k \in AllKeys : FindResults(f.h, f.root, k) = {disk.model[k]}
           /\ \A a \in RangeArgs :
                RangeResult(f.h, f.root, a[1], a[2]) = MapRange(disk.model, a[1], a[2])

\* ------------------------------------------------ two-thread histories
\* Every thread has returned from every call it made.
Quiet == phase = "run" /\ \A t \in Threads : pc[t] = "idle"

\* The calls recorded in hist, as <<thread, position>>.
Calls == {c \in Threads \X (1..MaxConc + 1) : c[2] <= Len(hist[c[1]])}
CallAt(c) == hist[c[1]][c[2]]

\* The map the load left: LoadVal under every loaded key.
LoadedMap == [k \in AllKeys |-> IF \E i \in 1..loaded : k = LoadKey(i) THEN LoadVal ELSE 0]

\* Call x must take effect before call y: program order, or x had returned
\* when y began.
Precedes(x, y) == (x[1] = y[1] /\ x[2] < y[2]) \/ x \in CallAt(y).preds

\* The total orders of the recorded calls that respect Precedes.
Linearizations ==
    {s \in [1..Cardinality(Calls) -> Calls] :
        /\ \A i, j \in DOMAIN s : i # j => s[i] # s[j]
        /\ \A i, j \in DOMAIN s : i < j => ~Precedes(s[j], s[i])}

\* The map after the calls of s[i..] are applied to m one at a time.
RECURSIVE ApplyCalls(_, _, _)
ApplyCalls(m, s, i) ==
    IF i > Len(s) THEN m
    ELSE LET c == CallAt(s[i])
         IN ApplyCalls([m EXCEPT ![c.key] = IF c.op = "insert" THEN c.val ELSE 0], s, i + 1)

\* The tree answers every find as the map m does.
TreeHolds(m) == \A k \in AllKeys : FindResults(heap, root, k) = {m[k]}

\* No recorded call names key k.
Untouched(k) == \A c \in Calls : CallAt(c).key # k /\ CallAt(c).op # "deserialize"

\* C3: threads insert pairwise distinct keys concurrently: once all have
\* returned, find(k) returns the inserted value for every inserted key.
C3_ConcurrentInsertsLoseNothing ==
    (/\ Concurrent /\ Quiet
     /\ \A t \in Threads : hist[t] # <<>>
     /\ \A c \in Calls : CallAt(c).op = "insert"
     /\ \A c, d \in Calls : c # d => CallAt(c).key # CallAt(d).key)
        => \A c \in Calls : FindResults(heap, root, CallAt(c).key) = {CallAt(c).val}

\* C4: the content find observes after concurrent inserts and removes have all
\* returned is the content of applying the calls one at a time in some total
\* order that respects program order and real-time precedence.
C4_MutatorsLinearizable ==
    (/\ Concurrent /\ Quiet
     /\ \A c \in Calls : CallAt(c).op \in {"insert", "remove"})
        => \E s \in Linearizations : TreeHolds(ApplyCalls(LoadedMap, s, 1))

\* C5: find(k) of a key that was present before the find began, and that no
\* concurrent call inserts or removes, returns the key's value.
C5_LookupNotFooled ==
    \A t \in Threads :
        (/\ Concurrent /\ phase = "run" /\ ret[t].op = "find"
         /\ LoadedMap[ret[t].key] # 0
         /\ Untouched(ret[t].key))
            => ret[t].val = LoadedMap[ret[t].key]

\* C6: threads remove pairwise disjoint sets of present keys concurrently:
\* once all have returned, find returns 0 for every removed key and the
\* original value for every other key.
C6_ConcurrentRemovesExact ==
    (/\ Concurrent /\ Quiet
     /\ \A t \in Threads : hist[t] # <<>>
     /\ \A c \in Calls : CallAt(c).op = "remove" /\ LoadedMap[CallAt(c).key] # 0
     /\ \A c, d \in Calls : c # d => CallAt(c).key # CallAt(d).key)
        => TreeHolds([k \in AllKeys |-> IF \E c \in Calls : CallAt(c).key = k THEN 0
                                        ELSE LoadedMap[k]])

\* C7: every pair range_find(lo, hi) returns while other threads run has
\* lo <= key <= hi, the keys are strictly ascending, every value was stored for
\* its key, and every key of [lo, hi] that is present throughout and untouched
\* by other threads is returned.
C7_RangeScanWellFormed ==
    \A t \in Threads :
        (Concurrent /\ phase = "run" /\ ret[t].op = "range") =>
            LET res == ret[t].res
                lo == ret[t].key
                hi == ret[t].val
            IN /\ \A i \in DOMAIN res : lo <= res[i][1] /\ res[i][1] <= hi
               /\ \A i, j \in DOMAIN res : i < j => res[i][1] < res[j][1]
               /\ \A i \in DOMAIN res :
                    \/ res[i][2] # 0 /\ res[i][2] = LoadedMap[res[i][1]]
                    \/ \E c \in Calls : /\ CallAt(c).op = "insert"
                                        /\ CallAt(c).key = res[i][1]
                                        /\ CallAt(c).val = res[i][2]
                    \/ \E c \in Calls : CallAt(c).op = "deserialize"
               /\ \A k \in lo..hi :
                    (k \in AllKeys /\ LoadedMap[k] # 0 /\ Untouched(k))
                        => \E i \in DOMAIN res : res[i] = <<k, LoadedMap[k]>>

\* Thread t cannot go on: its call has ended without returning, or it waits
\* for a node latch that another thread holds.
Stuck(t) ==
    \/ pc[t] = "fault"
    \/ /\ pc[t] = "fl_latch"
       /\ ~(IF loc[t].write THEN CanLock(heap[loc[t].node])
            ELSE CanLockShared(heap[loc[t].node]))
    \/ /\ pc[t] \in {"fl_child", "rng_next"}
       /\ ~(IF loc[t].write THEN CanLock(heap[loc[t].child])
            ELSE CanLockShared(heap[loc[t].child]))

\* C8: no reachable state has unfinished calls that are all unable to go on:
\* no deadlock on the latches, and every call returns.
C8_EveryCallReturns ==
    (\E t \in Threads : pc[t] # "idle")
        => \E t \in Threads : pc[t] # "idle" /\ ~Stuck(t)

\* C10: while a thread is inside serialize or deserialize it holds tree_mutex
\* exclusively and no other thread is inside insert, remove, find or
\* range_find; serialize and deserialize do not start while one is.
C10_SnapshotMutualExclusion ==
    \A t \in Threads :
        pc[t] \in {"ser", "deser"} =>
            /\ tree_mutex = [w |-> t, r |-> {}]
            /\ \A u \in Threads \ {t} : pc[u] = "idle"

\* C10: a thread is inside serialize of a non-empty tree while the other
\* thread still has a call to make.
C10_Witness ==
    /\ Concurrent /\ root # Null
    /\ \E t \in Threads : pc[t] = "ser" /\ \E u \in Threads \ {t} : budget[u] > 0

\* ------------------------------------------------- single-threaded runs
\* One thread calls, and it is between two calls.
Idle == ~Concurrent /\ pc[1] = "idle"

\* The nodes of the tree: everything reachable from root through children.
TreeNodes == Printed

\* The heap without its latches: what the nodes hold.
Shape(h) == [n \in DOMAIN h |-> [h[n] EXCEPT !.lw = 0, !.lr = {}]]

\* The heap with v as the value of key in the leaf that holds key.
WithValue(h, key, v) ==
    [n \in DOMAIN h |->
        IF h[n].is_leaf /\ LeafHas(h[n], key)
        THEN [h[n] EXCEPT !.values = [@ EXCEPT ![find_index(h[n], key) + 1] = v]]
        ELSE h[n]]

\* Thread 1 is inside insert(k, v2), after the load, and the map holds k.
UpsertStep ==
    /\ ~Concurrent /\ phase = "run"
    /\ loc[1].op = "insert" /\ model[loc[1].key] # 0

\* C11: insert(k, v2) on a tree that stores k changes the value stored for k
\* and nothing else: no node's keys, size, children, parent or sibling links,
\* not root, not head_leaf; it returns, and then find(k) = v2 and find answers
\* as before for every other key.
C11_UpsertChangesOnlyValue ==
    [][UpsertStep =>
         LET k == loc[1].key
             v2 == loc[1].val
         IN /\ pc'[1] # "fault"
            /\ root' = root /\ head_leaf' = head_leaf
            /\ Shape(heap') \in {Shape(heap), Shape(WithValue(heap, k, v2))}
            /\ pc'[1] = "idle" =>
                 /\ FindResults(heap', root', k) = {v2}
                 /\ \A k2 \in AllKeys \ {k} : FindResults(heap', root', k2) = {model[k2]}]_vars

\* No node latch and no lock on tree_mutex is held.
NothingLatched(h, tm) ==
    /\ tm = [w |-> 0, r |-> {}]
    /\ \A n \in DOMAIN h : h[n].lw = 0 /\ h[n].lr = {}

\* Thread 1 is inside remove(k), or enters it with this step, and the map
\* holds no k.
RemoveAbsentStep ==
    /\ ~Concurrent
    /\ \/ loc[1].op = "remove" /\ model[loc[1].key] = 0
       \/ /\ pc[1] = "idle" /\ loc'[1].op = "remove" /\ model[loc'[1].key] = 0
       \/ /\ pc[1] = "idle" /\ pc'[1] = "idle" /\ budget'[1] < budget[1]
          /\ ret'[1].op = "remove" /\ model[ret'[1].key] = 0

\* C12: remove(k) of a key that is not stored, the empty tree included, leaves
\* root, head_leaf and every node's keys, values, children and links as they
\* were, does not fail, and has released every latch when it returns.
C12_RemoveAbsentIsNoOp ==
    [][RemoveAbsentStep =>
         /\ pc'[1] # "fault"
         /\ root' = root /\ head_leaf' = head_leaf
         /\ Shape(heap') = Shape(heap)
         /\ pc'[1] = "idle" => NothingLatched(heap', tree_mutex')]_vars

\* The tree's nodes that have not been deleted.
LiveNodes == {n \in TreeNodes : heap[n].st = "live"}

\* ceil((m + 1) / 2), the least size the specification allows a non-root node.
MinSize(m) == (m + 2) \div 2

\* C13: after every completed operation of a single-threaded run, every
\* non-root node, leaf or internal, has size >= ceil((order + 1) / 2).
C13_MinimumOccupancy ==
    Idle => \A n \in LiveNodes \ {root} : heap[n].size >= MinSize(order)

\* C14: after every completed operation of a single-threaded run, every node
\* has size <= order, the node left by an internal merge included.
C14_MaximumOccupancy ==
    Idle => \A n \in LiveNodes : heap[n].size <= order

\* keys[0 .. size) of a node.
NodeKeys(n) == SubSeq(n.keys, 1, Min(n.size, Len(n.keys)))

\* The leaves met from leaf n by following next, in order; fuel bounds the
\* walk, so that a cycle shows as a repeated leaf.
RECURSIVE NextWalk(_, _, _)
NextWalk(h, n, fuel) ==
    IF n = Null \/ fuel = 0 THEN <<>>
    ELSE <<n>> \o NextWalk(h, h[n].next, fuel - 1)

\* The keys of the leaves of walk w, one after another.
RECURSIVE WalkKeys(_, _)
WalkKeys(h, w) ==
    IF w = <<>> THEN <<>> ELSE NodeKeys(h[Head(w)]) \o WalkKeys(h, Tail(w))

StrictlyAscending(s) == \A i \in 1..(Len(s) - 1) : s[i] < s[i + 1]

\* C15: after every completed operation of a single-threaded run, the walk
\* along next from head_leaf visits every leaf of the tree exactly once, the
\* keys it meets are strictly ascending and are exactly the stored keys, and
\* prev of each leaf is the leaf before it in the walk (none for the first).
C15_LeafListIntegrity ==
    Idle =>
      LET w == NextWalk(heap, head_leaf, Len(heap) + 1)
          ks == WalkKeys(heap, w)
      IN /\ \A i \in 1..Len(w) : heap[w[i]].st = "live" /\ heap[w[i]].is_leaf
         /\ Range(w) = {n \in TreeNodes : heap[n].is_leaf}
         /\ Cardinality(Range(w)) = Len(w)
         /\ StrictlyAscending(ks)
         /\ Range(ks) = {k \in AllKeys : model[k] # 0}
         /\ \A i \in 1..Len(w) :
              heap[w[i]].prev = IF i = 1 THEN Null ELSE w[i - 1]

\* The keys stored in the leaves below (and in) node n.
SubtreeKeys(h, n) ==
    UNION {Range(NodeKeys(h[l])) : l \in {x \in Subtree(h, {n}, Len(h)) : h[x].is_leaf}}

\* The internal nodes of the tree.
Internals == {n \in TreeNodes : ~heap[n].is_leaf}

\* C16: after every completed operation of a single-threaded run, for every
\* internal node with keys k[0 .. s) and children c[0 .. s], every key stored
\* under c[i] is < k[i] and every key stored under c[i + 1] is >= k[i].
C16_SeparatorOrdering ==
    Idle =>
      \A n \in Internals :
        /\ heap[n].st = "live"
        /\ \A i \in 1..heap[n].size :
             /\ i + 1 <= Len(heap[n].children) /\ i <= Len(heap[n].keys)
             /\ \A c \in Subtree(heap, {heap[n].children[i], heap[n].children[i + 1]}, Len(heap)) :
                  heap[c].st = "live"
             /\ \A k \in SubtreeKeys(heap, heap[n].children[i]) : k < heap[n].keys[i]
             /\ \A k \in SubtreeKeys(heap, heap[n].children[i + 1]) : k >= heap[n].keys[i]

\* The least element of a nonempty set of keys.
Least(S) == CHOOSE k \in S : \A x \in S : k <= x

\* C17: whenever no writer is active, for every internal node and every index
\* i, keys[i] is the smallest key stored in the subtree of children[i + 1].
C17_SeparatorIsSubtreeMinimum ==
    Idle =>
      \A n \in Internals \cap LiveNodes :
        \A i \in 1..Min(heap[n].size, Len(heap[n].children) - 1) :
          LET sub == Subtree(heap, {heap[n].children[i + 1]}, Len(heap))
              ks == SubtreeKeys(heap, heap[n].children[i + 1])
          IN (\A c \in sub : heap[c].st = "live") =>
               ks # {} /\ heap[n].keys[i] = Least(ks)

\* The distances from node n of the leaves below it (0 for a leaf itself).
RECURSIVE LeafDepths(_, _, _)
LeafDepths(h, n, fuel) ==
    IF h[n].is_leaf \/ fuel = 0 THEN {0}
    ELSE UNION {{d + 1 : d \in LeafDepths(h, c, fuel - 1)} : c \in Range(h[n].children)}

\* The places <<p, i>> at which node c is a child: p.children[i] = c.
ChildPlaces(c) ==
    {pi \in Internals \X (1..Len(heap)) :
        pi[2] <= Len(heap[pi[1]].children) /\ heap[pi[1]].children[pi[2]] = c}

\* C18: after every completed operation of a single-threaded run, every leaf
\* is at the same distance from the root, every internal node has exactly
\* size + 1 children, and no leaf is a child of two nodes (or twice of one).
C18_BalancedDepth ==
    (Idle /\ root # Null) =>
      /\ \A n \in TreeNodes : heap[n].st = "live"
      /\ Cardinality(LeafDepths(heap, root, Len(heap))) = 1
      /\ \A n \in Internals : Len(heap[n].children) = heap[n].size + 1
      /\ \A l \in TreeNodes : heap[l].is_leaf => Cardinality(ChildPlaces(l)) <= 1

\* C19: after every completed operation of a single-threaded run, the root's
\* parent is null and every child C in the children of an internal node P has
\* C.parent = P.
C19_ParentBackReferences ==
    (Idle /\ root # Null) =>
      /\ \A n \in TreeNodes : heap[n].st = "live"
      /\ heap[root].parent = Null
      /\ \A p \in Internals : \A c \in Range(heap[p].children) : heap[c].parent = p

\* The last call of thread 1 was a deserialize that threw.
DeserializeFailed ==
    Idle /\ ret[1].op = "deserialize" /\ ret[1].val = 0

\* C20 as stated: when deserialize raises an error the tree is empty
\* afterwards: root and head_leaf are null and find returns 0 for every key.
C20_FailedDeserializeLeavesEmptyTree ==
    DeserializeFailed =>
      /\ root = Null /\ head_leaf = Null
      /\ \A k \in AllKeys : FindResults(heap, root, k) = {0}

\* With this step thread 1 returns from a deserialize that threw.
DeserializeThrows ==
    ~Concurrent /\ pc[1] = "deser" /\ pc'[1] = "idle" /\ ret'[1].val = 0

\* C20, amended: a deserialize that raises because a file cannot be opened
\* leaves the tree exactly as it was before the call; one that raises because
\* of the header's key-type tag leaves the empty tree (root and head_leaf
\* null, find returns 0 for every key).  No part of the file's tree is
\* observable in either case.
C20_FailedDeserializeKeepsOrEmpties ==
    [][DeserializeThrows =>
         IF ~disk.exists
         THEN /\ root' = root /\ head_leaf' = head_leaf /\ order' = order
              /\ Shape(heap') = Shape(heap)
         ELSE /\ root' = Null /\ head_leaf' = Null /\ order' = order
              /\ Len(heap') = Len(heap)
              /\ \A k \in AllKeys : FindResults(heap', root', k) = {0}]_vars

\* A deserialize without files has thrown on a tree of two levels, and the
\* tree still answers find with what it stored.
C20_Witness ==
    /\ DeserializeFailed /\ ~disk.exists
    /\ root # Null /\ ~heap[root].is_leaf
    /\ \A k \in AllKeys : FindResults(heap, root, k) = {model[k]}
    /\ \E k \in AllKeys : model[k] # 0

\* ------------------------------------------------------ snapshot files
\* The ids that have a record in the data file of d.
RecordIds(d) == {d.data[j].id : j \in 1..Len(d.data)}

\* A child id, a next-leaf id, the root id or the head-leaf id of d has no
\* record.
Malformed(d) ==
    /\ d.exists /\ KeyTypeMatches(d)
    /\ \/ d.header[3] # -1 /\ d.header[3] \notin RecordIds(d)
       \/ d.header[4] # -1 /\ d.header[4] \notin RecordIds(d)
       \/ \E j \in 1..Len(d.data) :
            \/ d.data[j].next # -1 /\ d.data[j].next \notin RecordIds(d)
            \/ \E i \in 1..Len(d.data[j].children) : d.data[j].children[i] \notin RecordIds(d)

\* C21: deserialize of a malformed file pair (an id named in the files has no
\* record) raises an error and installs no tree; it never returns normally
\* with a root whose children count differs from size + 1.
C21_MalformedSnapshotRejected ==
    (Idle /\ ret[1].op = "deserialize" /\ Malformed(disk)) =>
      /\ ret[1].val = 0
      /\ root = Null /\ head_leaf = Null

\* ----------------------------------------------------------- root collapse
\* The nodes of heap h that have been deleted.
Freed(h) == {n \in DOMAIN h : h[n].st = "freed"}

\* With this step a remove of thread 1 replaces the root: the root collapse.
RootCollapse ==
    /\ ~Concurrent
    /\ pc[1] = "fl_loop" /\ loc[1].op = "remove" /\ pc'[1] = "release"
    /\ root' # root

\* C22: when a remove empties an internal root, the surviving child becomes
\* the root with a null parent, only the old root is freed, the new root and
\* its subtree stay allocated, and every remaining key is still found.
C22_RootCollapseFreesOnlyOldRoot ==
    [][RootCollapse =>
         /\ root' \in Range(heap[root].children)
         /\ heap'[root'].parent = Null
         /\ Freed(heap') \ Freed(heap) \subseteq {root} \cup (Subtree(heap, {root}, Len(heap)) \ Subtree(heap', {root'}, Len(heap')))
         /\ \A n \in Subtree(heap', {root'}, Len(heap')) : heap'[n].st = "live"
         /\ \A k \in AllKeys \ {loc[1].key} :
              FindResults(heap', root', k) = {model[k]}]_vars

\* ------------------------------------------------------------- latching
\* What node n holds besides its latch and its allocation state.
Fields(n) == [n EXCEPT !.lw = 0, !.lr = {}, !.st = "live"]

\* The nodes, allocated before this step, of which the step changes a field.
Written == {n \in DOMAIN heap : Fields(heap'[n]) # Fields(heap[n])}

\* With this step thread t applies its insert or remove to the leaf and runs
\* handle_split or handle_underflow.
Applies(t) ==
    /\ pc[t] = "fl_loop" /\ pc'[t] \in {"release", "fault"}
    /\ loc[t].op \in {"insert", "remove"}

\* C23: whenever insert or remove changes the keys, values, children, size,
\* parent, next or prev of an already-published node, the writing thread holds
\* that node's exclusive latch (so no other thread holds a latch on it).
C23_WritesUnderExclusiveLatch ==
    [][\A t \in Threads :
         (Concurrent /\ Applies(t)) => \A n \in Written : heap[n].lw = t]_vars

\* With this step thread t obtains the first node latch of its descent.
FirstLatch(t) == pc[t] = "fl_latch" /\ pc'[t] = "fl_loop"

\* C24: at the moment find_leaf obtains its first node latch, the node it
\* latches is the tree's root: no root split or root collapse of another
\* thread comes between the read of root and the latch.
C24_DescentStartsAtRoot ==
    [][\A t \in Threads :
         (Concurrent /\ FirstLatch(t)) => loc[t].node = root /\ heap[root].st = "live"]_vars

\* The nodes on which thread t holds a shared latch.
SharedHeld(t) == {n \in DOMAIN heap : t \in heap[n].lr}

\* Thread t is a reader inside the descent of find_leaf, past its first latch.
ReadDescent(t) == pc[t] \in {"fl_loop", "fl_child"} /\ loc[t].op \in {"find", "range"}

\* C25: from its first latch until find_leaf returns the leaf, a reader holds
\* at least one node latch at every instant: the child's shared latch is
\* acquired before the parent's is released.
C25_ReadCrabbingHandOverHand ==
    \A t \in Threads : ReadDescent(t) => SharedHeld(t) # {}

\* Thread t is inside range_find between two leaves: it has read
\* current->next and has not yet latched it.
LeafHandoff(t) == pc[t] = "rng_next"

\* C26: when range_find moves from a leaf to its successor, it still holds the
\* current leaf's shared latch until it has the successor's.
C26_RangeScanLockCoupling ==
    \A t \in Threads :
      LeafHandoff(t) => \E n \in SharedHeld(t) : heap[n].is_leaf /\ heap[n].next = loc[t].child

\* The nodes thread t holds exclusively.
Held(h, t) == {n \in DOMAIN h : h[n].lw = t}

\* With this step writer t latches the child it chose.
WriteChildLatch(t) == pc[t] = "fl_child" /\ loc[t].write /\ pc'[t] = "fl_loop"

\* Writer t is between its first latch and the end of its modification.
WriteDescent(t) == loc[t].write /\ pc[t] \in {"fl_loop", "fl_child"}

\* C27: during a write descent each child's exclusive latch is acquired while
\* the writer holds the exclusive latch of its parent; the held ancestors (the
\* queue, outermost first) are released, all of them, exactly when the child
\* just acquired is safe, and at no other step of the descent; and the leaf is
\* exclusively latched, last in the queue, when find_leaf returns it.
C27_WriteCrabbing ==
    [][\A t \in Threads :
         /\ WriteChildLatch(t) =>
              LET c == loc[t].child
                  q == loc[t].queue
              IN /\ heap[loc[t].node].lw = t
                 /\ q # <<>> /\ q[Len(q)] = loc[t].node
                 /\ IF is_safe(heap[c], order)
                    THEN Held(heap', t) = (Held(heap, t) \ Range(q)) \cup {c}
                         /\ loc'[t].queue = <<c>>
                    ELSE Held(heap', t) = Held(heap, t) \cup {c}
                         /\ loc'[t].queue = Append(q, c)
         /\ (WriteDescent(t) /\ ~WriteChildLatch(t) /\ pc'[t] # "idle") =>
              /\ Held(heap, t) \subseteq Held(heap', t)
              /\ loc'[t].queue = loc[t].queue
         /\ (loc'[t].write /\ pc'[t] = "fl_loop" /\ heap'[loc'[t].node].is_leaf) =>
              /\ heap'[loc'[t].node].lw = t
              /\ loc'[t].queue # <<>>
              /\ loc'[t].queue[Len(loc'[t].queue)] = loc'[t].node]_vars

\* A writer stands at a safe leaf of a tree of three levels and holds that
\* leaf only: the root and the unsafe internal node above the leaf, both held
\* on the way down, have been released.
C27_Witness ==
    /\ ~Concurrent /\ pc[1] = "fl_loop" /\ loc[1].write
    /\ heap[loc[1].node].is_leaf /\ is_safe(heap[loc[1].node], order)
    /\ loc[1].queue = <<loc[1].node>>
    /\ Held(heap, 1) = {loc[1].node}
    /\ LET p == heap[loc[1].node].parent
       IN /\ p # Null /\ heap[p].st = "live" /\ ~is_safe(heap[p], order)
          /\ heap[p].parent = root /\ root # Null /\ heap[root].st = "live"

\* Node n and its ancestors by the parent pointers of heap h.
RECURSIVE PathUp(_, _, _)
PathUp(h, n, fuel) ==
    IF n = Null \/ fuel = 0 THEN {} ELSE {n} \cup PathUp(h, h[n].parent, fuel - 1)

\* C28: after the release at a safe child, the pending insert or remove
\* changes nothing above that child; equivalently, every node on the leaf's
\* path to the root that handle_split or handle_underflow changes, a replaced
\* root included, is exclusively latched by the writer, in every interleaving
\* with another writer.
C28_SafeNodeStopsPropagation ==
    [][\A t \in Threads :
         (Concurrent /\ Applies(t)) =>
            \A n \in Written \cap (PathUp(heap, loc[t].node, Len(heap)) \cup {root}) :
               heap[n].lw = t]_vars

\* ------------------------------------------------------------ root_mutex
\* With this step thread t enters the call op (and may return from it at once).
Enters(t, op) ==
    /\ pc[t] = "idle"
    /\ \/ pc'[t] # "idle" /\ loc'[t].op = op
       \/ pc'[t] = "idle" /\ budget'[t] < budget[t] /\ ret'[t].op = op

\* The reads of root that thread t makes in this step outside a lock_guard on
\* root_mutex, by the line of the read: `if (!root) return 0` of find, the
\* `node == root`, `parent != root` and `parent == root` tests of
\* handle_underflow, and `if (!root) return` / `q.push(root)` of the
\* print_tree that insert calls.
UnguardedRootReads(t) ==
    IF Enters(t, "find") THEN {634}
    ELSE IF pc[t] = "fl_loop" /\ pc'[t] # "fl_loop" /\ loc[t].op = "remove"
            /\ heap[loc[t].node].is_leaf /\ LeafHas(heap[loc[t].node], loc[t].key)
         THEN {379} \cup (IF is_underloaded(LeafRemoveFromNode(heap[loc[t].node],
                                                find_index(heap[loc[t].node], loc[t].key)),
                                            order) /\ loc[t].node # root
                          THEN {453, 455} ELSE {})
    ELSE IF pc[t] = "ins_print" /\ pc'[t] = "idle" THEN {958, 961}
    ELSE {}

\* C29: every read of root by insert, remove, find or range_find happens while
\* the thread holds root_mutex.
C29_RootOnlyUnderRootMutex ==
    [][\A t \in Threads : Concurrent => UnguardedRootReads(t) = {}]_vars

\* ------------------------------------------------------------ returns
\* With this step thread t returns from insert, remove, find or range_find.
Returns(t) ==
    /\ pc'[t] = "idle"
    /\ \/ pc[t] \notin {"idle", "fault"} /\ loc[t].op \in {"insert", "remove", "find", "range"}
       \/ \E op \in {"remove", "find", "range"} : Enters(t, op)

\* The latches of thread t that this step takes away.
Dropped(t) ==
    {n \in DOMAIN heap : \/ heap[n].lw = t /\ heap'[n].lw # t
                         \/ t \in heap[n].lr /\ t \notin heap'[n].lr}

\* Thread t holds no node latch in h and no lock on tree_mutex in tm.
HoldsNothing(h, tm, t) ==
    /\ Held(h, t) = {}
    /\ \A n \in DOMAIN h : t \notin h[n].lr
    /\ tm.w # t /\ t \notin tm.r

\* C30: a returning insert, remove, find or range_find leaves its thread with
\* no node latch and no lock on tree_mutex, and every latch the thread gives
\* up is given up by unlocking the mutex of a node that still exists.
C30_NoLatchOutlivesItsCall ==
    [][\A t \in Threads :
         /\ \A n \in Dropped(t) : heap[n].st = "live"
         /\ Returns(t) => HoldsNothing(heap', tree_mutex', t)]_vars

\* ------------------------------------------------------------- splits
\* The splits one call of handle_split(node) makes on heap h when the key read
\* of its internal branch yields the stale element: for each, the heap just
\* before the split and the node that splits, the lowest first.
RECURSIVE SplitChain(_, _, _, _)
SplitChain(h, r, node, m) ==
    IF node = Null \/ ~is_overloaded(h[node], m) THEN <<>>
    ELSE LET leaf == h[node].is_leaf
             h1 == IF leaf THEN LeafSplit(h, node) ELSE InternalSplit(h, node)
             new_node == Len(h) + 1
             split_key == IF leaf THEN At(h1[new_node].keys, 0)
                                  ELSE At(h[node].keys, h1[node].size)
             parent == h1[node].parent
         IN <<[h |-> h, node |-> node]>> \o
            (IF node = r \/ parent = Null \/ h1[parent].is_leaf
                \/ (leaf /\ h1[new_node].keys = <<>>)
             THEN <<>>
             ELSE SplitChain(InternalInsertInNode(h1, parent, split_key, new_node),
                             r, parent, m))

\* Thread t is at a leaf with its insert: the step it takes is insert_in_node
\* followed by handle_split.
Inserting(t) == pc[t] = "fl_loop" /\ loc[t].op = "insert" /\ heap[loc[t].node].is_leaf

\* The splits of the step thread t takes at its leaf.
SplitsOf(t) ==
    LET n == loc[t].node
        c == SplitChain([heap EXCEPT ![n] = LeafInsertInNode(@, loc[t].key, loc[t].val)],
                        root, n, order)
    IN {c[i] : i \in DOMAIN c}

\* No node of heap h has been deleted.
NoneFreed(h) == \A n \in DOMAIN h : h[n].st = "live"

\* C31: when an overfull internal node of size s splits, the separator that
\* handle_split hands to the parent is the key at index s / 2 of the node
\* before the split, it is read at a valid index of the node's keys, the call
\* goes on, and the key is in neither half afterwards.
C31_InternalSplitPromotesMiddleKey ==
    [][\A t \in Threads :
         (~Concurrent /\ Inserting(t) /\ NoneFreed(heap)) =>
            \A e \in SplitsOf(t) :
                ~e.h[e.node].is_leaf =>
                    LET pre == e.h[e.node]
                        post == InternalSplit(e.h, e.node)
                        left == post[e.node]
                        right == post[Len(e.h) + 1]
                        read_at == left.size
                    IN /\ read_at < Len(left.keys)
                       /\ pc'[t] # "fault"
                       /\ At(pre.keys, read_at) = At(pre.keys, pre.size \div 2)
                       /\ At(pre.keys, pre.size \div 2) \notin Range(left.keys) \cup Range(right.keys)]_vars

\* The internal nodes that split in the step thread t takes at its leaf, each
\* with the heap just before its split.
InternalSplitsOf(t) == {e \in SplitsOf(t) : ~e.h[e.node].is_leaf}

\* C32: an overfull internal node of size s with children c[0..s] that splits
\* at p = s / 2 keeps keys [0..p) and children c[0..p]; the new right node
\* holds keys (p..s) and children c[p+1..s]; every child of the node is a child
\* of exactly one half; each half has one more child than keys; the key at p
\* is greater than every key under the left half and not greater than any key
\* under the right half.
C32_InternalSplitPartitionsChildren ==
    [][\A t \in Threads :
         (~Concurrent /\ Inserting(t) /\ NoneFreed(heap)) =>
            \A e \in InternalSplitsOf(t) :
                LET pre == e.h[e.node]
                    s == pre.size
                    p == s \div 2
                    new == Len(e.h) + 1
                    post == InternalSplit(e.h, e.node)
                    left == post[e.node]
                    right == post[new]
                    up == At(pre.keys, p)
                IN /\ Len(pre.keys) = s /\ Len(pre.children) = s + 1
                   /\ left.keys = SubSeq(pre.keys, 1, p)
                   /\ left.children = SubSeq(pre.children, 1, p + 1)
                   /\ right.keys = SubSeq(pre.keys, p + 2, s)
                   /\ right.children = SubSeq(pre.children, p + 2, s + 1)
                   /\ left.size = Len(left.keys) /\ right.size = Len(right.keys)
                   /\ Len(left.children) = left.size + 1
                   /\ Len(right.children) = right.size + 1
                   /\ Range(left.children) \cup Range(right.children) = Range(pre.children)
                   /\ Range(left.children) \cap Range(right.children) = {}
                   /\ Cardinality(Range(pre.children)) = s + 1
                   /\ \A k \in SubtreeKeys(post, e.node) : k < up
                   /\ \A k \in SubtreeKeys(post, new) : up <= k
                   /\ Shape(heap')[e.node] = [Shape(post)[e.node] EXCEPT !.parent = heap'[e.node].parent]
                   /\ Shape(heap')[new] = [Shape(post)[new] EXCEPT !.parent = heap'[new].parent]]_vars

\* C32: an insert has returned on a tree of three levels no node of which was
\* ever deleted: an internal node has split.
C32_Witness ==
    /\ Idle /\ NoneFreed(heap) /\ ret[1].op = "insert"
    /\ root # Null /\ ~heap[root].is_leaf
    /\ ~heap[At(heap[root].children, 0)].is_leaf

\* The overfull leaf of size s that thread t splits with its step keeps p
\* entries, p being ceil((s + 1) / 2) or floor((s + 1) / 2); the new leaf takes
\* the other s - p in order and stands between the leaf and its former
\* successor; when the call goes on, the first key of the new leaf is the
\* separator between the two leaves.
LeafSplitsAt(t, ceil) ==
    \A e \in SplitsOf(t) \ InternalSplitsOf(t) :
        LET pre == e.h[e.node]
            s == pre.size
            p == IF ceil THEN (s + 2) \div 2 ELSE (s + 1) \div 2
            new == Len(e.h) + 1
            left == heap'[e.node]
            right == heap'[new]
        IN /\ s = order + 1
           /\ left.size = p /\ left.keys = SubSeq(pre.keys, 1, p)
           /\ left.values = SubSeq(pre.values, 1, p)
           /\ right.is_leaf /\ right.size = s - p
           /\ right.keys = SubSeq(pre.keys, p + 1, s)
           /\ right.values = SubSeq(pre.values, p + 1, s)
           /\ left.next = new /\ right.prev = e.node /\ right.next = pre.next
           /\ left.prev = pre.prev
           /\ pre.next # Null => heap'[pre.next].prev = new
           /\ pc'[t] # "fault" =>
                \E q \in DOMAIN heap' :
                    /\ ~heap'[q].is_leaf
                    /\ \E i \in 1..heap'[q].size :
                         /\ heap'[q].keys[i] = right.keys[1]
                         /\ e.node \in Subtree(heap', {heap'[q].children[i]}, Len(heap'))
                         /\ new \in Subtree(heap', {heap'[q].children[i + 1]}, Len(heap'))

\* C33 as stated: an overfull leaf of size s = order + 1 that splits keeps
\* exactly ceil((s + 1) / 2) entries, the new right leaf receives the other
\* entries in order, the separator promoted is the first key of the new leaf,
\* and the new leaf is linked between the leaf and its former successor.
C33_LeafSplitPoint ==
    [][\A t \in Threads :
         (~Concurrent /\ Inserting(t) /\ NoneFreed(heap)) => LeafSplitsAt(t, TRUE)]_vars

\* C33, amended: the leaf keeps floor((s + 1) / 2) entries, which is
\* ceil((s + 1) / 2) for odd s only; the rest as stated.
C33_LeafSplitPointRoundedDown ==
    [][\A t \in Threads :
         (~Concurrent /\ Inserting(t) /\ NoneFreed(heap)) => LeafSplitsAt(t, FALSE)]_vars

\* C33: at order 3 (s = 4) an insert has returned and a leaf that was created
\* after its successor stands between two leaves: a leaf in the middle of the
\* list has split.
C33_Witness ==
    /\ Idle /\ NoneFreed(heap) /\ ret[1].op = "insert" /\ order = 3
    /\ \E n \in TreeNodes :
         /\ heap[n].is_leaf /\ heap[n].prev # Null /\ heap[n].next # Null
         /\ n > heap[n].next

\* ---------------------------------------------------------- underflows
\* The underflows one call of handle_underflow(node) resolves on heap h, the
\* lowest first: for each, the heap just before, the node, and the heap just
\* after the borrow or the merge (before the parent is looked at).
RECURSIVE UnderflowChain(_, _, _, _)
UnderflowChain(h, r, node, m) ==
    IF node = Null \/ node = r \/ ~is_underloaded(h[node], m) THEN <<>>
    ELSE LET parent == h[node].parent
         IN IF parent = Null \/ h[parent].is_leaf THEN <<>>
            ELSE
            LET child_index == ChildIndex(h, parent, node)
                nchildren == Len(h[parent].children)
                min == (m + 1) \div 2
                leaf == h[node].is_leaf
                canLeft == child_index > 0
                           /\ h[At(h[parent].children, child_index - 1)].size > min
                canRight == child_index < nchildren - 1
                            /\ h[At(h[parent].children, child_index + 1)].size > min
                ev(after) == [h |-> h, node |-> node, after |-> after]
            IN IF child_index = -1 THEN <<>>
               ELSE IF canLeft
               THEN <<ev(IF leaf THEN LeafBorrowLeft(h, parent, child_index)
                                 ELSE borrow_from_left(h, parent, child_index))>>
               ELSE IF canRight
               THEN <<ev(IF leaf THEN LeafBorrowRight(h, parent, child_index)
                                 ELSE borrow_from_right(h, parent, child_index))>>
               ELSE IF child_index = 0 /\ nchildren < 2 THEN <<>>
               ELSE
               LET h1 == IF child_index > 0
                         THEN merge_nodes(h, parent, child_index - 1, leaf)
                         ELSE merge_nodes(h, parent, child_index, leaf)
               IN <<ev(h1)>> \o (IF is_underloaded(h1[parent], m) /\ parent # r
                                 THEN UnderflowChain(h1, r, parent, m) ELSE <<>>)

\* Thread t is at a leaf that holds the key of its remove: the step it takes
\* is remove_from_node followed by handle_underflow.
Removing(t) ==
    /\ pc[t] = "fl_loop" /\ loc[t].op = "remove" /\ heap[loc[t].node].is_leaf
    /\ LeafHas(heap[loc[t].node], loc[t].key)

\* The underflows of the step thread t takes at its leaf.
UnderflowsOf(t) ==
    LET n == loc[t].node
    IN UnderflowChain([heap EXCEPT ![n] = LeafRemoveFromNode(@, find_index(@, loc[t].key))],
                      root, n, order)

\* The nodes deleted between heaps h and g.
FreedBetween(h, g) == {n \in DOMAIN h : h[n].st = "live" /\ g[n].st = "freed"}

\* Node a has lent one entry to node b between heaps h and g, under parent p,
\* whose size and children stay.
Borrowed(h, g, p, a, b) ==
    /\ g[a].size = h[a].size - 1 /\ g[b].size = h[b].size + 1
    /\ Len(g[a].keys) = Len(h[a].keys) - 1 /\ Len(g[b].keys) = Len(h[b].keys) + 1
    /\ g[p].size = h[p].size /\ g[p].children = h[p].children
    /\ FreedBetween(h, g) = {}
    /\ \A x \in DOMAIN h \ {a, b, p} : Shape(g)[x] = [Shape(h)[x] EXCEPT !.parent = g[x].parent]

\* Children i and i + 1 of p (counted from 0) have merged between heaps h and
\* g: p loses key i and child i + 1, which is deleted, and nothing else is.
Merged(h, g, p, i) ==
    LET left == At(h[p].children, i)
        right == At(h[p].children, i + 1)
    IN /\ g[p].size = h[p].size - 1
       /\ g[p].keys = EraseAt(h[p].keys, i)
       /\ g[p].children = EraseAt(h[p].children, i + 1)
       /\ FreedBetween(h, g) = {right}
       /\ g[left].size = h[left].size + h[right].size + (IF h[left].is_leaf THEN 0 ELSE 1)

Serialized ==
    /\ Idle /\ ret[1].op = "serialize" /\ root # Null /\ NoneFreed(heap)
    /\ disk.exists /\ Len(disk.header) = 4

\* C35: every serialize of a non-empty tree gives the root id 0 and writes
\* root_id = 0 in the header; the head leaf gets id 1 only when it is not the
\* root, so that a tree of one leaf has root_id = 0 and head_leaf_id = 0; the
\* nodes of the tree get pairwise distinct ids.
C35_SnapshotIdAssignment ==
    Serialized =>
        /\ disk.header[3] = 0
        /\ disk.header[4] = IF head_leaf = root THEN 0 ELSE 1
        /\ Len(disk.data) = Cardinality(TreeNodes)
        /\ \A i, j \in 1..Len(disk.data) : i # j => disk.data[i].id # disk.data[j].id

\* -------------------------------------------------------- freed latches
\* C36: every node whose latch a remove still holds in its queue is allocated
\* until the release loop unlocks it, also after a merge with the left sibling
\* and after a root collapse.
C36_NoLatchedNodeFreed ==
    \A t \in Threads :
        (~Concurrent /\ loc[t].op = "remove") =>
            \A i \in DOMAIN loc[t].queue :
                heap[loc[t].queue[i]].lw = t => heap[loc[t].queue[i]].st = "live"

\* ----------------------------------------------------- code's threshold
\* C37: after every completed operation of a single-threaded run no non-root
\* node of the tree satisfies is_underloaded: every non-root node has
\* size >= (order + 1) / 2 with integer division, the two halves of a split
\* internal node included.
C37_NoNodeUnderloaded ==
    (Idle /\ NoneFreed(heap)) =>
        \A n \in TreeNodes \ {root} : ~is_underloaded(heap[n], order)

\* ------------------------------------------------------------ head_leaf
\* The node reached from node n by following children[0] down to a leaf.
RECURSIVE Leftmost(_, _, _)
Leftmost(h, n, fuel) ==
    IF n = Null \/ fuel = 0 \/ h[n].is_leaf \/ h[n].children = <<>> THEN n
    ELSE Leftmost(h, At(h[n].children, 0), fuel - 1)

\* C38: after any single-threaded sequence of inserts and removes head_leaf
\* designates an allocated leaf, the leftmost leaf of the tree: its prev is
\* null and it is the leaf reached from the root by following children[0].
C38_HeadLeafIsLeftmostLeaf ==
    (Idle /\ root # Null) =>
        /\ head_leaf # Null
        /\ heap[head_leaf].st = "live" /\ heap[head_leaf].is_leaf
        /\ heap[head_leaf].prev = Null
        /\ Leftmost(heap, root, Len(heap)) = head_leaf

\* ---------------------------------------------------------- small orders
\* The sizes 0 .. m + 1 at which is_safe holds for order m.
SafeSizes(m) == {sz \in 0..(m + 1) : is_safe([size |-> sz], m)}

\* Writer t has latched its first node and has not run its release loop with
\* this step.
HoldsPath(t) ==
    /\ loc[t].write /\ pc[t] \in {"fl_loop", "fl_child", "release"}
    /\ ~(pc[t] = "release" /\ pc'[t] \in {"idle", "ins_print"})

\* At order 3 or less a writer keeps the latch of every node it has visited,
\* the first one included, until its release loop: its queue only grows and
\* lists exactly the nodes it holds.
KeepsPath(t) ==
    (order <= 3 /\ HoldsPath(t)) =>
        /\ loc[t].queue # <<>> /\ loc'[t].queue # <<>>
        /\ loc'[t].queue[1] = loc[t].queue[1]
        /\ Held(heap, t) \subseteq Held(heap', t)
        /\ Range(loc'[t].queue) = Held(heap', t)

InsertReads(t) ==
    IF loc[t].op # "insert" \/ pc'[t] = pc[t] THEN {}
    ELSE IF pc[t] = "fl_loop" THEN {loc[t].node}
    ELSE IF pc[t] = "ins_print" THEN Printed
    ELSE {}

\* C40: from its call to its return insert reads a node's keys, size or
\* children only while its thread holds a latch on that node; after the
\* release loop it does not walk the tree again.
C40_InsertReadsUnderLatch ==
    [][\A t \in Threads :
         (Concurrent /\ phase = "run") =>
            \A n \in InsertReads(t) : heap[n].lw = t \/ t \in heap[n].lr]_vars

====
